---- MODULE Spec2Model ----
(***************************************************************************)
(* Moderation, cross-reference, cache and store-gateway model of the       *)
(* stellar backend (src/src/services, src/src/utils).                      *)
(***************************************************************************)
EXTENDS Integers, Sequences, FiniteSets, TLC

(***************************************************************************)
(* Bounds and program constants                                            *)
(***************************************************************************)
MaxMinutes == 1            \* the service's clock stops after this many minutes
MaxCacheMinutes == 2       \* the clock of the cache on its own stops after this many
MinuteMs == 60 * 1000      \* cache.ts:10  ttlMinutes * 60 * 1000

(***************************************************************************)
(* Cache (src/src/utils/cache.ts)                                          *)
(***************************************************************************)
\* String.prototype.includes: pat occurs in key as a contiguous substring
Includes(key, pat) ==
    \E i \in 1..(Len(key) - Len(pat) + 1) : SubSeq(key, i, i + Len(pat) - 1) = pat

\* the value cached for "no such document"
NullData == [kind |-> "null"]

ExpiredMut(item, t) == t >= item.expires
\* cache.ts:24  Date.now() > item.expires
Expired(item, t) == t > item.expires

\* cache.ts:9-13  MemoryCache.set
CacheSet(c, key, data, ttlMinutes, t) ==
    [k \in (DOMAIN c) \cup {key} |->
        IF k = key THEN [data |-> data, expires |-> t + ttlMinutes * MinuteMs] ELSE c[k]]

\* cache.ts:34-36  MemoryCache.delete
CacheDelete(c, key) == [k \in (DOMAIN c) \ {key} |-> c[k]]

\* cache.ts:15-32  MemoryCache.get, the value returned (NullData on a miss or an expired entry)
CacheGet(c, key, t) ==
    IF key \notin DOMAIN c THEN NullData
    ELSE IF Expired(c[key], t) THEN NullData
    ELSE c[key].data

\* cache.ts:15-32  MemoryCache.get, the map it leaves behind (lazy eviction)
CacheAfterGet(c, key, t) ==
    IF key \in DOMAIN c /\ Expired(c[key], t) THEN CacheDelete(c, key) ELSE c

\* cache.ts:38-40  MemoryCache.clear
CacheClear(c) == [k \in {} |-> NullData]

MatchesMut(key, pattern) == Len(pattern) <= Len(key) /\ SubSeq(key, 1, Len(pattern)) = pattern
\* cache.ts:45  key.includes(pattern)
Matches(key, pattern) == Includes(key, pattern)

\* cache.ts:43-49  MemoryCache.clearPattern
CacheClearPattern(c, pattern) ==
    [k \in {x \in DOMAIN c : ~Matches(x, pattern)} |-> c[k]]

(***************************************************************************)
(* Documents of the two collections and the callers                        *)
(***************************************************************************)
ArtistOrder == <<"a1", "a2">>
EventOrder == <<"e1", "e2">>
ArtistIds == {ArtistOrder[i] : i \in 1..Len(ArtistOrder)}
EventIds == {EventOrder[i] : i \in 1..Len(EventOrder)}

\* verified {uid, role} pairs handed over by the auth middleware
Callers == {[uid |-> "u1", role |-> "user"], [uid |-> "adm", role |-> "admin"]}
NoCaller == [uid |-> "none", role |-> "none"]

\* datetime {start, end} of an event, in milliseconds
Periods == {[start |-> 0, end |-> MinuteMs \div 2]}

\* the reason an admin may give: it is read only when the target is rejected
Reasons(target) == IF target = "rejected" THEN {"none", "r"} ELSE {"none"}

\* a document id that was never written ("free"), holds a document ("live") or was deleted;
\* an id that is "void" is one the store never hands out and no caller knows

NoEvent ==
    [state |-> "free", status |-> "none", createdBy |-> "none", artists |-> <<>>,
     start |-> 0, end |-> 0, rejectedReason |-> "none"]
NoArtist ==
    [state |-> "free", status |-> "none", createdBy |-> "none", activeEventIds |-> <<>>,
     rejectedReason |-> "none"]

VARIABLES
    now,        \* Date.now(), in milliseconds
    cache,      \* MemoryCache.cache : key -> [data, expires]
    out,        \* the value handed back by the last cache call
    lastSet,    \* per key, the last set not touched since by set/delete/clear/clearPattern
    events,     \* collection coffeeEvents : id -> document
    artists,    \* collection artists : id -> document
    favorites,  \* collection userFavorites : the rows in the order of their ids
    req,        \* the requests being served : request -> its position and locals
    wrap        \* one call of withTimeoutAndRetry : its attempts and how it settled

vars == <<now, cache, out, lastSet, events, artists, favorites, req, wrap>>
storeVars == <<events, artists, favorites, req, wrap>>

\* no call of the wrapper is being followed
NoWrap ==
    [pc |-> "idle", maxAttempts |-> 0, attempt |-> 0, started |-> 0, outcome |-> <<>>,
     pending |-> {}, value |-> 0, error |-> "none"]

(***************************************************************************)
(* The cache on its own: every MemoryCache method against the clock        *)
(***************************************************************************)
\* keys the services build (eventService.ts:117,266,420)
CacheKeys == {"event:e1", "events:status:approved", "map-data:active:{}"}

\* patterns and fragments handed to clearPattern (eventService.ts:627,628,640 and parts of keys)
CachePatterns == {"events:", "map-data:", "artists:stats:", "event:", "status:", ""}

CacheValues == {NullData, [kind |-> "event", status |-> "approved"]}

\* TTLs the services pass, in minutes (eventService.ts:121,430)
CacheTtls == {1, 2}

NoOut == [op |-> "none"]
NoSet == [live |-> FALSE]

InitCache ==
    /\ now = 0
    /\ cache = [k \in {} |-> NullData]
    /\ out = NoOut
    /\ lastSet = [k \in CacheKeys |-> NoSet]
    /\ events = [e \in EventIds |-> NoEvent]
    /\ artists = [a \in ArtistIds |-> NoArtist]
    /\ favorites = <<>>
    /\ req = [r \in {} |-> NoCaller]
    /\ wrap = NoWrap

\* cache.ts:9-13
DoCacheSet ==
    \E k \in CacheKeys, v \in CacheValues, ttl \in CacheTtls :
        /\ cache' = CacheSet(cache, k, v, ttl, now)
        /\ lastSet' = [lastSet EXCEPT ![k] = [live |-> TRUE, data |-> v, at |-> now, ttl |-> ttl]]
        /\ out' = NoOut
        /\ UNCHANGED <<now, storeVars>>

\* cache.ts:15-32
DoCacheGet ==
    \E k \in CacheKeys :
        /\ out' = [op |-> "get", key |-> k, at |-> now, data |-> CacheGet(cache, k, now),
                   held |-> (k \in DOMAIN cache /\ ~Expired(cache[k], now))]
        /\ cache' = CacheAfterGet(cache, k, now)
        /\ UNCHANGED <<now, lastSet, storeVars>>

\* cache.ts:34-36
DoCacheDelete ==
    \E k \in CacheKeys :
        /\ cache' = CacheDelete(cache, k)
        /\ lastSet' = [lastSet EXCEPT ![k] = NoSet]
        /\ out' = NoOut
        /\ UNCHANGED <<now, storeVars>>

\* cache.ts:38-40
DoCacheClear ==
    /\ cache' = CacheClear(cache)
    /\ lastSet' = [k \in CacheKeys |-> NoSet]
    /\ out' = NoOut
    /\ UNCHANGED <<now, storeVars>>

\* cache.ts:43-49
DoCacheClearPattern ==
    \E p \in CachePatterns :
        /\ cache' = CacheClearPattern(cache, p)
        /\ lastSet' = [k \in CacheKeys |-> IF Includes(k, p) THEN NoSet ELSE lastSet[k]]
        /\ out' = [op |-> "clearPattern", pattern |-> p,
                   removed |-> (DOMAIN cache) \ (DOMAIN CacheClearPattern(cache, p))]
        /\ UNCHANGED <<now, storeVars>>

\* Date.now() moves on, a minute at a time
ClockStep == MinuteMs

TickCache ==
    /\ now + ClockStep <= MaxCacheMinutes * MinuteMs
    /\ now' = now + ClockStep
    /\ out' = NoOut
    /\ UNCHANGED <<cache, lastSet, storeVars>>

NextCache ==
    \/ DoCacheSet
    \/ DoCacheGet
    \/ DoCacheDelete
    \/ DoCacheClear
    \/ DoCacheClearPattern
    \/ TickCache

SpecCache == InitCache /\ [][NextCache]_vars

\* C6: a get of a key whose last set has not been touched since returns the value set
\* while Date.now() is not past the set time plus ttl minutes, and nothing once it is past
C6_SetThenGet ==
    (out.op = "get" /\ lastSet[out.key].live) =>
        LET s == lastSet[out.key] IN
        IF out.at <= s.at + s.ttl * MinuteMs
        THEN out.held /\ out.data = s.data
        ELSE ~out.held /\ out.data = NullData

\* a get at the very millisecond of expiry, which still returns the value set
C6_Witness ==
    /\ out.op = "get"
    /\ lastSet[out.key].live
    /\ lastSet[out.key].data # NullData
    /\ out.at = lastSet[out.key].at + lastSet[out.key].ttl * MinuteMs
    /\ out.held

\* C7: clearPattern(p) removes exactly the keys containing p; every other key keeps its
\* value and its expiry
C7_ClearPatternExact ==
    [][out'.op = "clearPattern" =>
        /\ DOMAIN cache' = {k \in DOMAIN cache : ~Includes(k, out'.pattern)}
        /\ \A k \in DOMAIN cache' : cache'[k] = cache[k]]_vars

\* clearPattern("status:") took a key holding the pattern in its middle and left another
C7_Witness ==
    /\ out.op = "clearPattern"
    /\ out.pattern = "status:"
    /\ "events:status:approved" \in out.removed
    /\ "event:e1" \in DOMAIN cache

(***************************************************************************)
(* Requests and the store gateway                                          *)
(*                                                                         *)
(* A request sits at pc "call" while a store call wrapped in               *)
(* withTimeoutAndRetry is out, and at pc "resp" once the wrapper has       *)
(* settled; the handler's code up to its next await is one action.         *)
(***************************************************************************)
Reqs == {"r1"}

NoCall == [kind |-> "none"]
NoResp == [ok |-> FALSE]
NoPeriod == [start |-> 0, end |-> 0]

Blank ==
    [op |-> "idle", pc |-> "idle", at |-> "none", caller |-> NoCaller, eid |-> "none",
     aid |-> "none", aids |-> <<>>, target |-> "none", reason |-> "none",
     period |-> NoPeriod, call |-> NoCall, resp |-> NoResp, seen |-> NoEvent,
     ids |-> <<>>, idx |-> 0, batch |-> <<>>, xrefFailed |-> FALSE,
     result |-> "none", value |-> NullData]

\* the handler has returned (result "ok") or thrown (any other result)
Finish(q, result, value) ==
    [Blank EXCEPT !.op = q.op, !.pc = "done", !.caller = q.caller, !.eid = q.eid,
                  !.aid = q.aid, !.aids = q.aids, !.target = q.target,
                  !.reason = q.reason, !.seen = q.seen, !.xrefFailed = q.xrefFailed,
                  !.result = result, !.value = value]

\* the handler awaits withTimeoutAndRetry(() => call) at the place named at
Await(q, at, call) == [q EXCEPT !.pc = "call", !.at = at, !.call = call, !.resp = NoResp]

Range(seq) == {seq[i] : i \in 1..Len(seq)}

\* a Firestore update: the listed fields are overwritten, the others kept
Patched(doc, patch) == [f \in DOMAIN doc |-> IF f \in DOMAIN patch THEN patch[f] ELSE doc[f]]

Coll(coll) == IF coll = "events" THEN events ELSE artists

\* the ids callers can name
InPlay(coll) == {id \in DOMAIN Coll(coll) : Coll(coll)[id].state # "void"}
Gone(coll) == [(IF coll = "events" THEN NoEvent ELSE NoArtist) EXCEPT !.state = "deleted"]

\* Firestore rejects an update of a missing document, and a batch holding one, as a whole
Accepted(call) ==
    CASE call.kind = "update" -> Coll(call.coll)[call.id].state = "live"
      [] call.kind = "commit" -> \A i \in 1..Len(call.writes) :
                                     artists[call.writes[i].id].state = "live"
      [] call.kind = "add" -> \E id \in DOMAIN Coll(call.coll) :
                                     Coll(call.coll)[id].state = "free"
      [] OTHER -> TRUE

\* auto-generated ids are opaque: the first unused one stands for the new id
NewId(coll) ==
    LET order == IF coll = "events" THEN EventOrder ELSE ArtistOrder
        free == {i \in 1..Len(order) : Coll(coll)[order[i]].state = "free"}
    IN order[CHOOSE i \in free : \A j \in free : i <= j]

\* the last write of a batch to a document wins
LastWrite(writes, id) ==
    LET hits == {i \in 1..Len(writes) : writes[i].id = id} IN
    writes[CHOOSE i \in hits : \A j \in hits : j <= i]

\* the collection as the call leaves it
After(call, coll) ==
    LET c == Coll(coll) IN
    IF call.kind = "commit" THEN
        IF coll = "artists"
        THEN [id \in DOMAIN c |->
                 IF \E i \in 1..Len(call.writes) : call.writes[i].id = id
                 THEN Patched(c[id], LastWrite(call.writes, id).patch) ELSE c[id]]
        ELSE c
    ELSE IF call.kind \in {"get", "query"} \/ call.coll # coll THEN c
    ELSE CASE call.kind = "update" -> [c EXCEPT ![call.id] = Patched(@, call.patch)]
           [] call.kind = "delete" ->
                 [c EXCEPT ![call.id] = IF @.state = "live" THEN Gone(coll) ELSE @]
           [] call.kind = "add" -> [c EXCEPT ![NewId(coll)] = call.doc]

\* what the call resolves with
Resolved(call) ==
    CASE call.kind = "get" -> [ok |-> TRUE, id |-> call.id, doc |-> Coll(call.coll)[call.id]]
      [] call.kind = "add" -> [ok |-> TRUE, id |-> NewId(call.coll)]
      [] call.kind = "query" ->
            LET docs == {id \in DOMAIN Coll(call.coll) :
                             /\ Coll(call.coll)[id].state = "live"
                             /\ call.status \in {"any", Coll(call.coll)[id].status}}
            IN [ok |-> TRUE, docs |-> docs, snap |-> [id \in docs |-> Coll(call.coll)[id]]]
      [] OTHER -> [ok |-> TRUE]

IsWrite(call) == call.kind \in {"update", "delete", "add", "commit"}

\* firestoreTimeout.ts:71-82  the wrapper resolves with the value of an attempt
StoreOk(r) ==
    /\ req[r].pc = "call"
    /\ Accepted(req[r].call)
    /\ events' = After(req[r].call, "events")
    /\ artists' = After(req[r].call, "artists")
    /\ req' = [req EXCEPT ![r].pc = "resp", ![r].resp = Resolved(req[r].call)]
    /\ UNCHANGED <<now, cache, out, lastSet, favorites, wrap>>

\* firestoreTimeout.ts:40-66  every attempt failed: the wrapper throws FirestoreRetryError
StoreFail(r) ==
    /\ req[r].pc = "call"
    /\ req' = [req EXCEPT ![r].pc = "resp", ![r].resp = [ok |-> FALSE]]
    /\ UNCHANGED <<now, cache, out, lastSet, favorites, wrap, events, artists>>

\* firestoreTimeout.ts:26-35  every attempt timed out and the wrapper throws, yet the write
\* of an attempt, which the race does not cancel, reaches the store
StoreLost(r) ==
    /\ req[r].pc = "call"
    /\ IsWrite(req[r].call)
    /\ Accepted(req[r].call)
    /\ events' = After(req[r].call, "events")
    /\ artists' = After(req[r].call, "artists")
    /\ req' = [req EXCEPT ![r].pc = "resp", ![r].resp = [ok |-> FALSE]]
    /\ UNCHANGED <<now, cache, out, lastSet, favorites, wrap>>

\* the HTTP layer has answered and the request is gone
Return(r) ==
    /\ req[r].pc = "done"
    /\ req' = [req EXCEPT ![r] = Blank]
    /\ UNCHANGED <<now, cache, out, lastSet, favorites, wrap, events, artists>>

(***************************************************************************)
(* ArtistService (src/src/services/artistService.ts)                       *)
(***************************************************************************)
Step(r, q) ==
    /\ req' = [req EXCEPT ![r] = q]
    /\ UNCHANGED <<now, out, lastSet, favorites, events, artists, wrap>>

CacheDeleteAll(c, keys) == [k \in (DOMAIN c) \ keys |-> c[k]]

\* artistService.ts:124-150  createArtist, up to the add
StartCreateArtist(r) ==
    \E c \in Callers :
        /\ req[r].pc = "idle"
        /\ Step(r, Await([Blank EXCEPT !.op = "createArtist", !.caller = c], "ca_add",
                [kind |-> "add", coll |-> "artists",
                 doc |-> [state |-> "live", status |-> "pending", createdBy |-> c.uid,
                          activeEventIds |-> <<>>, rejectedReason |-> "none"]]))
        /\ UNCHANGED cache

\* artistService.ts:144-149
ContCreateArtist(r) ==
    /\ req[r].pc = "resp" /\ req[r].at = "ca_add"
    /\ Step(r, IF req[r].resp.ok
               THEN Finish([req[r] EXCEPT !.aid = req[r].resp.id], "ok",
                           [kind |-> "artist", id |-> req[r].resp.id, status |-> "pending"])
               ELSE Finish(req[r], "StoreUnavailable", NullData))
    /\ UNCHANGED cache

\* artistService.ts:161-181  the fields a review writes
ArtistReviewPatch(target, reason) ==
    IF target = "rejected" /\ reason # "none"
    THEN [status |-> target, rejectedReason |-> reason]
    ELSE IF target \in {"approved", "exists"}
    THEN [status |-> target, rejectedReason |-> "none"]
    ELSE [status |-> target]

\* artistRoutes.ts (requireAdmin) and artistService.ts:152-184  updateArtistStatus
StartUpdateArtistStatus(r) ==
    \E c \in Callers, a \in InPlay("artists"), t \in {"approved", "rejected", "exists"} :
      \E why \in Reasons(t) :
        /\ req[r].pc = "idle"
        /\ c.role = "admin"
        /\ Step(r, Await([Blank EXCEPT !.op = "updateArtistStatus", !.caller = c, !.aid = a,
                                        !.target = t, !.reason = why], "uas_update",
                [kind |-> "update", coll |-> "artists", id |-> a,
                 patch |-> ArtistReviewPatch(t, why)]))
        /\ UNCHANGED cache

\* artistService.ts:186-192
ArtistReviewInvalidate(c, a) ==
    CacheClearPattern(CacheClearPattern(
        CacheDeleteAll(c, {"artists:approved", "artist:" \o a}),
        "artists:filters:"), "artists:status:")

\* artistService.ts:184-200
ContUpdateArtistStatus(r) ==
    /\ req[r].pc = "resp" /\ req[r].at = "uas_update"
    /\ IF req[r].resp.ok
       THEN /\ cache' = ArtistReviewInvalidate(cache, req[r].aid)
            /\ Step(r, Finish(req[r], "ok",
                        [kind |-> "artist", id |-> req[r].aid, status |-> req[r].target]))
       ELSE /\ cache' = cache
            /\ Step(r, Finish(req[r], "StoreUnavailable", NullData))

\* lists of performer ids a caller may pass
ArtistLists ==
    {l \in {<<>>, <<"a1">>, <<"a2">>, <<"a1", "a2">>} : Range(l) \subseteq InPlay("artists")}

\* artistService.ts:288-292  one update per listed id, all with the same fields
BatchWrites(ids, patch) == [i \in 1..Len(ids) |-> [id |-> ids[i], patch |-> patch]]

\* artistRoutes.ts (requireAdmin) and artistService.ts:251-295  batchUpdateArtistStatus
StartBatchUpdateArtistStatus(r) ==
    \E c \in Callers, ids \in ArtistLists, t \in {"approved", "rejected", "exists"} :
      \E why \in Reasons(t) :
        /\ req[r].pc = "idle"
        /\ c.role = "admin"
        /\ LET q == [Blank EXCEPT !.op = "batchUpdateArtistStatus", !.caller = c,
                                  !.aids = ids, !.target = t, !.reason = why] IN
           Step(r, IF Len(ids) = 0
                   THEN Finish(q, "ok", [kind |-> "list", ids |-> <<>>])
                   ELSE Await(q, "bas_commit",
                              [kind |-> "commit",
                               writes |-> BatchWrites(ids, ArtistReviewPatch(t, why))]))
        /\ UNCHANGED cache

\* artistService.ts:297-310
BatchInvalidate(c, ids) ==
    CacheDeleteAll(
        CacheClearPattern(CacheClearPattern(
            CacheDeleteAll(c, {"artists:approved", "artists:pending", "artists:rejected"}),
            "artists:filters:"), "artists:status:"),
        {"artist:" \o ids[i] : i \in 1..Len(ids)})

\* artistService.ts:295-322
ContBatchUpdateArtistStatus(r) ==
    /\ req[r].pc = "resp" /\ req[r].at = "bas_commit"
    /\ IF req[r].resp.ok
       THEN /\ cache' = BatchInvalidate(cache, req[r].aids)
            /\ Step(r, Finish(req[r], "ok", [kind |-> "list", ids |-> req[r].aids]))
       ELSE /\ cache' = cache
            /\ Step(r, Finish(req[r], "StoreUnavailable", NullData))

\* artistService.ts:325-330  resubmitArtist, up to the read
StartResubmitArtist(r) ==
    \E c \in Callers, a \in InPlay("artists") :
        /\ req[r].pc = "idle"
        /\ Step(r, Await([Blank EXCEPT !.op = "resubmitArtist", !.caller = c, !.aid = a],
                         "rsa_get", [kind |-> "get", coll |-> "artists", id |-> a]))
        /\ UNCHANGED cache

\* a resubmission that does not look at the status
ResubmitVerdictMut(doc, uid) ==
    IF doc.state # "live" THEN "NotFound"
    ELSE IF doc.createdBy # uid THEN "PermissionDenied"
    ELSE "ok"

\* artistService.ts:332-346 and eventService.ts:671-685  the checks of a resubmission
ResubmitVerdict(doc, uid) ==
    IF doc.state # "live" THEN "NotFound"
    ELSE IF doc.createdBy # uid THEN "PermissionDenied"
    ELSE IF doc.status # "rejected" THEN "InvalidTransition"
    ELSE "ok"

\* a resubmission that approves
ResubmitPatchMut == [status |-> "approved", rejectedReason |-> "none"]

\* a resubmission that keeps the old updatedAt
ResubmitPatchKeepMut == [status |-> "pending", rejectedReason |-> "none"]

\* artistService.ts:348-352 and eventService.ts:687-691  updatedAt: Timestamp.now()
ResubmitPatch == [status |-> "pending", rejectedReason |-> "none", updatedAt |-> now]

\* artistService.ts:330-354
ContResubmitArtistGet(r) ==
    /\ req[r].pc = "resp" /\ req[r].at = "rsa_get"
    /\ Step(r, IF ~req[r].resp.ok THEN Finish(req[r], "StoreUnavailable", NullData)
               ELSE LET v == ResubmitVerdict(req[r].resp.doc, req[r].caller.uid)
                        q == [req[r] EXCEPT !.seen = req[r].resp.doc] IN
                    IF v # "ok" THEN Finish(q, v, NullData)
                    ELSE Await(q, "rsa_update",
                               [kind |-> "update", coll |-> "artists", id |-> req[r].aid,
                                patch |-> ResubmitPatch]))
    /\ UNCHANGED cache

\* artistService.ts:356-363
ArtistResubmitInvalidate(c, a) ==
    CacheClearPattern(CacheClearPattern(
        CacheDeleteAll(c, {"artists:approved", "artists:pending", "artist:" \o a}),
        "artists:filters:"), "artists:status:")

\* artistService.ts:354-371
ContResubmitArtistUpdate(r) ==
    /\ req[r].pc = "resp" /\ req[r].at = "rsa_update"
    /\ IF req[r].resp.ok
       THEN /\ cache' = ArtistResubmitInvalidate(cache, req[r].aid)
            /\ Step(r, Finish(req[r], "ok",
                        [kind |-> "artist", id |-> req[r].aid, status |-> "pending"]))
       ELSE /\ cache' = cache
            /\ Step(r, Finish(req[r], "StoreUnavailable", NullData))

(***************************************************************************)
(* EventService (src/src/services/eventService.ts)                         *)
(***************************************************************************)
\* artistIds of a new event: one to ten performers
EventArtistLists ==
    {l \in {<<"a1">>, <<"a2">>, <<"a1", "a2">>} : Range(l) \subseteq InPlay("artists")}

\* eventService.ts:445-458  createEvent, up to the read of the first performer
StartCreateEvent(r) ==
    \E c \in Callers, ids \in EventArtistLists, p \in Periods :
        /\ req[r].pc = "idle"
        /\ Step(r, Await([Blank EXCEPT !.op = "createEvent", !.caller = c, !.aids = ids,
                                        !.period = p, !.idx = 1],
                         "ce_artist", [kind |-> "get", coll |-> "artists", id |-> ids[1]]))
        /\ UNCHANGED cache

NewEventMut(q) ==
    [state |-> "live", status |-> "approved", createdBy |-> q.caller.uid, artists |-> q.aids,
     start |-> q.period.start, end |-> q.period.end, rejectedReason |-> "none"]

\* eventService.ts:476-493  the document createEvent adds
NewEvent(q) ==
    [state |-> "live", status |-> "pending", createdBy |-> q.caller.uid, artists |-> q.aids,
     start |-> q.period.start, end |-> q.period.end, rejectedReason |-> "none"]

ValidatedMut(doc) == doc.state = "live"

\* eventService.ts:459  the performer exists and has passed review
Validated(doc) == doc.state = "live" /\ doc.status = "approved"

\* eventService.ts:455-495  one turn of the performer check; after the last one the test
\* of the coordinates (located: the body has a truthy latitude and longitude), then the add
ContCreateEventArtist(r) ==
    /\ req[r].pc = "resp" /\ req[r].at = "ce_artist"
    /\ \E located \in BOOLEAN :
        Step(r, IF ~req[r].resp.ok THEN Finish(req[r], "StoreUnavailable", NullData)
                ELSE IF ~Validated(req[r].resp.doc)
                THEN Finish(req[r], "ValidationError", NullData)
                ELSE IF req[r].idx < Len(req[r].aids)
                THEN Await([req[r] EXCEPT !.idx = @ + 1], "ce_artist",
                           [kind |-> "get", coll |-> "artists",
                            id |-> req[r].aids[req[r].idx + 1]])
                ELSE IF ~located THEN Finish(req[r], "InvalidCoordinates", NullData)
                ELSE Await(req[r], "ce_add",
                           [kind |-> "add", coll |-> "events", doc |-> NewEvent(req[r])]))
    /\ UNCHANGED cache

EventCountKeys(ids) == {"artist:" \o ids[i] \o ":eventCount" : i \in 1..Len(ids)}

\* eventService.ts:497-507
CreateEventInvalidate(c, ids) ==
    CacheClearPattern(
        CacheDeleteAll(CacheClearPattern(CacheClearPattern(c, "events:"), "map-data:"),
                       EventCountKeys(ids)),
        "artists:stats:")

\* eventService.ts:495-513
ContCreateEventAdd(r) ==
    /\ req[r].pc = "resp" /\ req[r].at = "ce_add"
    /\ IF req[r].resp.ok
       THEN /\ cache' = CreateEventInvalidate(cache, req[r].aids)
            /\ Step(r, Finish([req[r] EXCEPT !.eid = req[r].resp.id], "ok",
                        [kind |-> "event", id |-> req[r].resp.id, status |-> "pending"]))
       ELSE /\ cache' = cache
            /\ Step(r, Finish(req[r], "StoreUnavailable", NullData))

\* eventRoutes.ts (requireAdmin) and eventService.ts:586-593  updateEventStatus, up to the read
StartUpdateEventStatus(r) ==
    \E c \in Callers, e \in InPlay("events"), t \in {"approved", "rejected"} :
      \E why \in Reasons(t) :
        /\ req[r].pc = "idle"
        /\ c.role = "admin"
        /\ Step(r, Await([Blank EXCEPT !.op = "updateEventStatus", !.caller = c, !.eid = e,
                                        !.target = t, !.reason = why],
                         "ues_get", [kind |-> "get", coll |-> "events", id |-> e]))
        /\ UNCHANGED cache

EventReviewPatchMut(target, reason) ==
    IF target = "rejected" /\ reason # "none"
    THEN [status |-> target, rejectedReason |-> reason]
    ELSE [status |-> target]

\* eventService.ts:601-613  the fields a review writes
EventReviewPatch(target, reason) ==
    IF target = "rejected" /\ reason # "none"
    THEN [status |-> target, rejectedReason |-> reason]
    ELSE IF target = "approved"
    THEN [status |-> target, rejectedReason |-> "none"]
    ELSE [status |-> target]

\* eventService.ts:593-615
ContUpdateEventStatusGet(r) ==
    /\ req[r].pc = "resp" /\ req[r].at = "ues_get"
    /\ Step(r, IF ~req[r].resp.ok THEN Finish(req[r], "StoreUnavailable", NullData)
               ELSE IF req[r].resp.doc.state # "live" THEN Finish(req[r], "NotFound", NullData)
               ELSE Await([req[r] EXCEPT !.seen = req[r].resp.doc], "ues_update",
                          [kind |-> "update", coll |-> "events", id |-> req[r].eid,
                           patch |-> EventReviewPatch(req[r].target, req[r].reason)]))
    /\ UNCHANGED cache

\* eventService.ts:733-737  the maintainer starts: an empty batch and the first read,
\* or the commit at once when the event lists nobody
EnterXref(q, at, ids) ==
    IF Len(ids) = 0
    THEN Await([q EXCEPT !.ids = ids, !.idx = 1, !.batch = <<>>], at \o "_commit",
               [kind |-> "commit", writes |-> <<>>])
    ELSE Await([q EXCEPT !.ids = ids, !.idx = 1, !.batch = <<>>], at \o "_get",
               [kind |-> "get", coll |-> "artists", id |-> ids[1]])

\* eventService.ts:615-624
ContUpdateEventStatusUpdate(r) ==
    /\ req[r].pc = "resp" /\ req[r].at = "ues_update"
    /\ Step(r, IF ~req[r].resp.ok THEN Finish(req[r], "StoreUnavailable", NullData)
               ELSE EnterXref(req[r], "xref", req[r].seen.artists))
    /\ UNCHANGED cache

SeqHas(seq, x) == \E i \in 1..Len(seq) : seq[i] = x
SeqWithout(seq, x) == SelectSeq(seq, LAMBDA y : y # x)

\* a maintainer that never adds
XrefIdsKeepMut(active, eventId, status) ==
    IF status = "approved" /\ ~SeqHas(active, eventId) THEN Append(active, eventId)
    ELSE active

\* a maintainer that adds without looking
XrefIdsAgainMut(active, eventId, status) ==
    IF status = "approved" THEN Append(active, eventId)
    ELSE IF status = "rejected" THEN SeqWithout(active, eventId)
    ELSE active

XrefIdsMut(active, eventId, status) ==
    IF status = "approved" THEN active ELSE SeqWithout(active, eventId)

\* eventService.ts:741-751  the list written for one performer
XrefIds(active, eventId, status) ==
    IF status = "approved"
    THEN IF SeqHas(active, eventId) THEN active ELSE Append(active, eventId)
    ELSE IF status = "rejected" THEN SeqWithout(active, eventId)
    ELSE active

\* a maintainer told "approved" by every caller
XrefStatusMut(q) == "approved"

\* the status the maintainer is called with: eventService.ts:622 and eventService.ts:700
XrefStatus(q) == IF q.op = "resubmitEvent" THEN "rejected" ELSE q.target

\* one turn of the loop over the performers: the document read is queued into the batch when
\* it exists, then the next read goes out, or the commit after the last one
XrefTurn(q, at, ids) ==
    LET doc == q.resp.doc
        b == IF doc.state = "live"
             THEN Append(q.batch, [id |-> q.resp.id, patch |-> [activeEventIds |-> ids]])
             ELSE q.batch
    IN IF q.idx < Len(q.ids)
       THEN Await([q EXCEPT !.batch = b, !.idx = @ + 1], at \o "_get",
                  [kind |-> "get", coll |-> "artists", id |-> q.ids[q.idx + 1]])
       ELSE Await([q EXCEPT !.batch = b], at \o "_commit", [kind |-> "commit", writes |-> b])

GetEvent(e) == [kind |-> "get", coll |-> "events", id |-> e]

\* eventService.ts:626-640
EventReviewInvalidate(c, e, ids) ==
    CacheClearPattern(
        CacheDeleteAll(
            CacheDelete(CacheClearPattern(CacheClearPattern(c, "events:"), "map-data:"),
                        "event:" \o e),
            EventCountKeys(ids)),
        "artists:stats:")

\* eventService.ts:704-713
EventResubmitInvalidate(c, e, ids) ==
    CacheDeleteAll(CacheClearPattern(CacheClearPattern(c, "events:"), "map-data:"),
                   EventCountKeys(ids))

\* what follows the maintainer: eventService.ts:626-642 in a review, 704-717 in a resubmission
AfterXrefCache(c, q) ==
    IF q.op = "updateEventStatus"
    THEN EventReviewInvalidate(c, q.eid, q.seen.artists)
    ELSE EventResubmitInvalidate(c, q.eid, q.seen.artists)

\* a handler that gives up when the maintainer has failed
AfterXrefReqMut(q) ==
    IF q.xrefFailed THEN Finish(q, "StoreUnavailable", NullData)
    ELSE Await(q, IF q.op = "updateEventStatus" THEN "ues_reget" ELSE "rse_reget",
               GetEvent(q.eid))

AfterXrefReq(q) ==
    Await(q, IF q.op = "updateEventStatus" THEN "ues_reget" ELSE "rse_reget", GetEvent(q.eid))

\* eventService.ts:735-755 and the catch of 758-760 around a failed read
ContXrefGet(r) ==
    /\ req[r].pc = "resp" /\ req[r].at = "xref_get"
    /\ IF req[r].resp.ok
       THEN /\ Step(r, XrefTurn(req[r], "xref",
                        XrefIds(req[r].resp.doc.activeEventIds, req[r].eid, XrefStatus(req[r]))))
            /\ cache' = cache
       ELSE /\ Step(r, AfterXrefReq([req[r] EXCEPT !.xrefFailed = TRUE]))
            /\ cache' = AfterXrefCache(cache, req[r])

\* eventService.ts:757-761  the commit has settled; a failure is logged and dropped
ContXrefCommit(r) ==
    /\ req[r].pc = "resp" /\ req[r].at = "xref_commit"
    /\ Step(r, AfterXrefReq([req[r] EXCEPT !.xrefFailed = ~req[r].resp.ok]))
    /\ cache' = AfterXrefCache(cache, req[r])

\* the event as a handler returns it
EventValue(id, doc) ==
    IF doc.state = "live" THEN [kind |-> "event", id |-> id, status |-> doc.status]
    ELSE [kind |-> "event", id |-> id, status |-> "none"]

\* eventService.ts:642-662
ContUpdateEventStatusReget(r) ==
    /\ req[r].pc = "resp" /\ req[r].at = "ues_reget"
    /\ Step(r, IF req[r].resp.ok
               THEN Finish(req[r], "ok", EventValue(req[r].eid, req[r].resp.doc))
               ELSE Finish(req[r], "StoreUnavailable", NullData))
    /\ UNCHANGED cache

\* eventService.ts:666-669  resubmitEvent, up to the read
StartResubmitEvent(r) ==
    \E c \in Callers, e \in InPlay("events") :
        /\ req[r].pc = "idle"
        /\ Step(r, Await([Blank EXCEPT !.op = "resubmitEvent", !.caller = c, !.eid = e],
                         "rse_get", GetEvent(e)))
        /\ UNCHANGED cache

\* eventService.ts:669-693
ContResubmitEventGet(r) ==
    /\ req[r].pc = "resp" /\ req[r].at = "rse_get"
    /\ Step(r, IF ~req[r].resp.ok THEN Finish(req[r], "StoreUnavailable", NullData)
               ELSE LET v == ResubmitVerdict(req[r].resp.doc, req[r].caller.uid)
                        q == [req[r] EXCEPT !.seen = req[r].resp.doc] IN
                    IF v # "ok" THEN Finish(q, v, NullData)
                    ELSE Await(q, "rse_update",
                               [kind |-> "update", coll |-> "events", id |-> req[r].eid,
                                patch |-> ResubmitPatch]))
    /\ UNCHANGED cache

\* eventService.ts:693-702
ContResubmitEventUpdate(r) ==
    /\ req[r].pc = "resp" /\ req[r].at = "rse_update"
    /\ Step(r, IF ~req[r].resp.ok THEN Finish(req[r], "StoreUnavailable", NullData)
               ELSE EnterXref(req[r], "xref", req[r].seen.artists))
    /\ UNCHANGED cache

\* eventService.ts:717-722
ContResubmitEventReget(r) ==
    /\ req[r].pc = "resp" /\ req[r].at = "rse_reget"
    /\ Step(r, IF req[r].resp.ok
               THEN Finish(req[r], "ok", EventValue(req[r].eid, req[r].resp.doc))
               ELSE Finish(req[r], "StoreUnavailable", NullData))
    /\ UNCHANGED cache

\* eventService.ts:763-766  deleteEvent, up to the read
StartDeleteEvent(r) ==
    \E c \in Callers, e \in InPlay("events") :
        /\ req[r].pc = "idle"
        /\ Step(r, Await([Blank EXCEPT !.op = "deleteEvent", !.caller = c, !.eid = e],
                         "de_get", GetEvent(e)))
        /\ UNCHANGED cache

MayDeleteMut(doc, caller) == caller.role = "admin" \/ doc.createdBy # ""

\* eventService.ts:774-777  who may delete
MayDelete(doc, caller) == caller.role = "admin" \/ doc.createdBy = caller.uid

\* eventService.ts:766-785
ContDeleteEventGet(r) ==
    /\ req[r].pc = "resp" /\ req[r].at = "de_get"
    /\ Step(r, IF ~req[r].resp.ok THEN Finish(req[r], "StoreUnavailable", NullData)
               ELSE IF req[r].resp.doc.state # "live" THEN Finish(req[r], "NotFound", NullData)
               ELSE IF ~MayDelete(req[r].resp.doc, req[r].caller)
               THEN Finish([req[r] EXCEPT !.seen = req[r].resp.doc], "PermissionDenied", NullData)
               ELSE EnterXref([req[r] EXCEPT !.seen = req[r].resp.doc], "rm",
                              req[r].resp.doc.artists))
    /\ UNCHANGED cache

DeleteCall(q) == Await(q, "de_delete", [kind |-> "delete", coll |-> "events", id |-> q.eid])

\* eventService.ts:813-826 and the catch of 829-831 around a failed read
ContRemoveGet(r) ==
    /\ req[r].pc = "resp" /\ req[r].at = "rm_get"
    /\ Step(r, IF req[r].resp.ok
               THEN XrefTurn(req[r], "rm", SeqWithout(req[r].resp.doc.activeEventIds, req[r].eid))
               ELSE DeleteCall([req[r] EXCEPT !.xrefFailed = TRUE]))
    /\ UNCHANGED cache

\* eventService.ts:828-832, then eventService.ts:788
ContRemoveCommit(r) ==
    /\ req[r].pc = "resp" /\ req[r].at = "rm_commit"
    /\ Step(r, DeleteCall([req[r] EXCEPT !.xrefFailed = ~req[r].resp.ok]))
    /\ UNCHANGED cache

\* eventService.ts:790-803
EventDeleteInvalidate(c, e, ids) ==
    CacheClearPattern(
        CacheDeleteAll(
            CacheDelete(CacheClearPattern(CacheClearPattern(c, "events:"), "map-data:"),
                        "event:" \o e),
            EventCountKeys(ids)),
        "artists:stats:")

\* eventService.ts:788-804
ContDeleteEventDelete(r) ==
    /\ req[r].pc = "resp" /\ req[r].at = "de_delete"
    /\ IF req[r].resp.ok
       THEN /\ cache' = EventDeleteInvalidate(cache, req[r].eid, req[r].seen.artists)
            /\ Step(r, Finish(req[r], "ok", NullData))
       ELSE /\ cache' = cache
            /\ Step(r, Finish(req[r], "StoreUnavailable", NullData))

\* JavaScript truthiness of what cache.get returned: null is falsy, objects and arrays are not
Truthy(data) == data # NullData

\* eventService.ts:417-426  getEventById, up to the read
StartGetEventById(r) ==
    \E c \in Callers, e \in InPlay("events") :
        /\ req[r].pc = "idle"
        /\ LET key == "event:" \o e
               hit == CacheGet(cache, key, now)
               q == [Blank EXCEPT !.op = "getEventById", !.caller = c, !.eid = e] IN
           /\ cache' = CacheAfterGet(cache, key, now)
           /\ Step(r, IF Truthy(hit) THEN Finish(q, "ok", hit)
                      ELSE Await(q, "gbi_get", GetEvent(e)))

\* eventService.ts:426-443
ContGetEventById(r) ==
    /\ req[r].pc = "resp" /\ req[r].at = "gbi_get"
    /\ IF ~req[r].resp.ok
       THEN /\ cache' = cache
            /\ Step(r, Finish(req[r], "StoreUnavailable", NullData))
       ELSE LET v == IF req[r].resp.doc.state = "live"
                     THEN EventValue(req[r].eid, req[r].resp.doc) ELSE NullData IN
            /\ cache' = CacheSet(cache, "event:" \o req[r].eid, v, 2, now)
            /\ Step(r, Finish(req[r], "ok", v))

(***************************************************************************)
(* The service as a whole                                                  *)
(***************************************************************************)
\* Date.now() moves on while requests are served
Tick ==
    /\ now + ClockStep <= MaxMinutes * MinuteMs
    /\ now' = now + ClockStep
    /\ UNCHANGED <<cache, out, lastSet, storeVars>>

\* a fresh process over an empty store, with one performer id and one event id in play
Init ==
    /\ now = 0
    /\ cache = [k \in {} |-> NullData]
    /\ out = NoOut
    /\ lastSet = [k \in CacheKeys |-> NoSet]
    /\ events = [e \in EventIds |-> IF e = EventOrder[1] THEN NoEvent
                                     ELSE [NoEvent EXCEPT !.state = "void"]]
    /\ artists = [a \in ArtistIds |-> IF a = ArtistOrder[1] THEN NoArtist
                                       ELSE [NoArtist EXCEPT !.state = "void"]]
    /\ favorites = <<>>
    /\ req = [r \in Reqs |-> Blank]
    /\ wrap = NoWrap

Next ==
    \/ Tick
    \/ \E r \in Reqs :
        \/ StoreOk(r) \/ StoreFail(r) \/ StoreLost(r) \/ Return(r)
        \/ StartCreateArtist(r) \/ ContCreateArtist(r)
        \/ StartUpdateArtistStatus(r) \/ ContUpdateArtistStatus(r)
        \/ StartBatchUpdateArtistStatus(r) \/ ContBatchUpdateArtistStatus(r)
        \/ StartResubmitArtist(r) \/ ContResubmitArtistGet(r) \/ ContResubmitArtistUpdate(r)
        \/ StartCreateEvent(r) \/ ContCreateEventArtist(r) \/ ContCreateEventAdd(r)
        \/ StartUpdateEventStatus(r) \/ ContUpdateEventStatusGet(r)
        \/ ContUpdateEventStatusUpdate(r) \/ ContXrefGet(r) \/ ContXrefCommit(r)
        \/ ContUpdateEventStatusReget(r)
        \/ StartResubmitEvent(r) \/ ContResubmitEventGet(r) \/ ContResubmitEventUpdate(r)
        \/ ContResubmitEventReget(r)
        \/ StartDeleteEvent(r) \/ ContDeleteEventGet(r) \/ ContRemoveGet(r)
        \/ ContRemoveCommit(r) \/ ContDeleteEventDelete(r)
        \/ StartGetEventById(r) \/ ContGetEventById(r)

Spec == Init /\ [][Next]_vars

(***************************************************************************)
(* Properties of the service                                               *)
(***************************************************************************)
\* request r's handler returns or throws in this step
Finishes(r) == req[r].pc # "done" /\ req'[r].pc = "done"

\* the operations that run the Cross-Reference Maintainer
EventOps == {"updateEventStatus", "resubmitEvent", "deleteEvent"}

\* the events that are approved, have not ended at time t and list performer a
ListedActive(a, t) ==
    {e \in EventIds : /\ events[e].state = "live"
                      /\ events[e].status = "approved"
                      /\ events[e].end >= t
                      /\ SeqHas(events[e].artists, a)}

ResubmitOps == {"resubmitEvent", "resubmitArtist"}

\* the record request q is about, as the store holds it
Stored(q) == IF q.op \in {"resubmitEvent", "updateEventStatus", "deleteEvent"}
             THEN events[q.eid] ELSE artists[q.aid]

\* C3: a resubmission whose read the store answered goes on to write pending exactly when
\* the record exists, is rejected and was created by the caller; otherwise it throws at once
\* (not found, else permission denied for another caller, else invalid transition) and
\* leaves the records, every activeEventIds and the cache as they were; and a resubmission
\* that returns has seen a rejected record of the caller's.
C3_ResubmitGuard ==
    [][\A r \in Reqs :
          /\ (/\ req[r].op \in ResubmitOps
              /\ req[r].pc = "resp" /\ req[r].at \in {"rse_get", "rsa_get"}
              /\ req[r].resp.ok
              /\ req'[r] # req[r]) =>
                 LET doc == Stored(req[r]) IN
                 IF doc.state = "live" /\ doc.status = "rejected"
                                       /\ doc.createdBy = req[r].caller.uid
                 THEN /\ req'[r].pc = "call"
                      /\ req'[r].call.kind = "update"
                      /\ req'[r].call.patch.status = "pending"
                 ELSE /\ req'[r].pc = "done"
                      /\ req'[r].result =
                            (IF doc.state # "live" THEN "NotFound"
                             ELSE IF doc.createdBy # req[r].caller.uid THEN "PermissionDenied"
                             ELSE "InvalidTransition")
                      /\ events' = events /\ artists' = artists /\ cache' = cache
          /\ (Finishes(r) /\ req'[r].op \in ResubmitOps /\ req'[r].result = "ok") =>
                 /\ req'[r].seen.state = "live"
                 /\ req'[r].seen.status = "rejected"
                 /\ req'[r].seen.createdBy = req'[r].caller.uid]_vars

\* the creator resubmits an approved event that is cached and held by a performer
C3_Witness ==
    \E r \in Reqs :
        /\ req[r].pc = "done" /\ req[r].op = "resubmitEvent"
        /\ req[r].result = "InvalidTransition"
        /\ ("event:" \o req[r].eid) \in DOMAIN cache
        /\ events[req[r].eid].status = "approved"
        /\ \E a \in ArtistIds : SeqHas(artists[a].activeEventIds, req[r].eid)

\* a status change of a stored document, as a pair <<from, to>>
StatusEdges(before, after) ==
    {<<before[id].status, after[id].status>> :
        id \in {d \in DOMAIN before : /\ before[d].state = "live" /\ after[d].state = "live"
                                      /\ before[d].status # after[d].status}}

C9_MaintainerFailureSwallowed ==
    [][\A r \in Reqs :
          /\ (/\ req[r].pc = "resp"
              /\ req[r].at \in {"xref_get", "xref_commit", "rm_get", "rm_commit"}
              /\ ~req[r].resp.ok
              /\ req'[r] # req[r]) =>
                 /\ req'[r].pc = "call"
                 /\ req'[r].at \in {"ues_reget", "rse_reget", "de_delete"}
                 /\ req'[r].xrefFailed
                 /\ events' = events
          /\ (Finishes(r) /\ req'[r].xrefFailed) =>
                 /\ req'[r].result = "ok" <=> req[r].resp.ok
                 /\ req'[r].result = "ok" =>
                        LET e == events'[req'[r].eid] IN
                        CASE req'[r].op = "updateEventStatus" -> e.status = req'[r].target
                          [] req'[r].op = "resubmitEvent" -> e.status = "pending"
                          [] req'[r].op = "deleteEvent" -> e.state = "deleted"]_vars

\* an approval has returned although the maintainer failed: the event is approved and the
\* performer it lists does not hold its id
C9_Witness ==
    \E r \in Reqs :
        /\ req[r].pc = "done" /\ req[r].op = "updateEventStatus" /\ req[r].result = "ok"
        /\ req[r].target = "approved" /\ req[r].xrefFailed
        /\ events[req[r].eid].status = "approved"
        /\ \E a \in ArtistIds : /\ SeqHas(events[req[r].eid].artists, a)
                                /\ artists[a].state = "live"
                                /\ ~SeqHas(artists[a].activeEventIds, req[r].eid)

\* C10 as claimed: when updateEventStatus, resubmitEvent or deleteEvent on an event returns,
\* the cache holds no entry event:<id> of that event, no key containing "events:" and no key
\* containing "map-data:".
C10_CacheCleanOnReturn ==
    [][\A r \in Reqs :
          (Finishes(r) /\ req'[r].op \in EventOps /\ req'[r].result = "ok") =>
              \A k \in DOMAIN cache' :
                  /\ k # "event:" \o req'[r].eid
                  /\ ~Includes(k, "events:")
                  /\ ~Includes(k, "map-data:")]_vars

(***************************************************************************)
(* Performer moderation on its own, over two performers                    *)
(***************************************************************************)
\* a fresh process over an empty store, with two performer ids in play and no event id
InitArtists ==
    /\ now = 0
    /\ cache = [k \in {} |-> NullData]
    /\ out = NoOut
    /\ lastSet = [k \in CacheKeys |-> NoSet]
    /\ events = [e \in EventIds |-> [NoEvent EXCEPT !.state = "void"]]
    /\ artists = [a \in ArtistIds |-> NoArtist]
    /\ favorites = <<>>
    /\ req = [r \in Reqs |-> Blank]
    /\ wrap = NoWrap

NextArtists ==
    \E r \in Reqs :
        \/ StoreOk(r) \/ StoreFail(r) \/ StoreLost(r) \/ Return(r)
        \/ StartCreateArtist(r) \/ ContCreateArtist(r)
        \/ StartUpdateArtistStatus(r) \/ ContUpdateArtistStatus(r)
        \/ StartBatchUpdateArtistStatus(r) \/ ContBatchUpdateArtistStatus(r)
        \/ StartResubmitArtist(r) \/ ContResubmitArtistGet(r) \/ ContResubmitArtistUpdate(r)

SpecArtists == InitArtists /\ [][NextArtists]_vars

\* C5 as claimed: the commit of batchUpdateArtistStatus either gives every listed performer
\* the target status, and the call returns, or changes no record, and the call throws; a
\* call with an empty list writes nothing and returns the empty list.
C5_BatchAllOrNothing ==
    [][\A r \in Reqs :
          req'[r].op = "batchUpdateArtistStatus" =>
              /\ (req[r].pc = "idle" /\ Len(req'[r].aids) = 0) =>
                     /\ req'[r].pc = "done" /\ req'[r].result = "ok"
                     /\ req'[r].value = [kind |-> "list", ids |-> <<>>]
                     /\ artists' = artists
              /\ (req[r].pc = "call" /\ req'[r].pc = "resp") =>
                     IF req'[r].resp.ok
                     THEN \A i \in 1..Len(req[r].aids) :
                              artists'[req[r].aids[i]].status = req[r].target
                     ELSE artists' = artists
              /\ Finishes(r) => (req'[r].result = "ok" <=> req[r].resp.ok \/ Len(req'[r].aids) = 0)]_vars

(***************************************************************************)
(* withTimeoutAndRetry (src/src/utils/firestoreTimeout.ts) on its own      *)
(***************************************************************************)
MaxAttempts == 3           \* the largest maxAttempts a caller passes
TimeoutMs == 15000         \* firestoreTimeout.ts:79  timeoutMs = 15000
DelayMs == 1000            \* firestoreTimeout.ts:79  delayMs = 1000

\* how long after its invocation an operation may settle in time
OpLatencies == {0, TimeoutMs - 1}

\* a loop that goes round once more
MayRetryMut(attempt, maxAttempts) == attempt <= maxAttempts

\* firestoreTimeout.ts:59  if (attempt < maxAttempts)
MayRetry(attempt, maxAttempts) == attempt < maxAttempts

Later(t, u) == IF t >= u THEN t ELSE u

\* firestoreTimeout.ts:47-49 and 81  the first turn of the loop invokes the operation and
\* races it against a timer
CallWrapper ==
    \E m \in 1..MaxAttempts :
        /\ wrap.pc = "idle"
        /\ wrap' = [NoWrap EXCEPT !.pc = "racing", !.maxAttempts = m, !.attempt = 1,
                                  !.started = now, !.pending = {1}]
        /\ UNCHANGED <<now, cache, out, lastSet, favorites, events, artists, req>>

\* firestoreTimeout.ts:49  the operation resolves before the timer fires: withRetry returns
OpResolves ==
    \E d \in OpLatencies :
        /\ wrap.pc = "racing"
        /\ wrap.attempt \in wrap.pending
        /\ now' = Later(now, wrap.started + d)
        /\ wrap' = [wrap EXCEPT !.pc = "resolved", !.value = wrap.attempt,
                                !.outcome = Append(@, "ok"),
                                !.pending = @ \ {wrap.attempt}]
        /\ UNCHANGED <<cache, out, lastSet, favorites, events, artists, req>>

\* firestoreTimeout.ts:50-65  the catch block: wait and go round again, or leave the loop
\* and throw FirestoreRetryError
AttemptFailed(w, how) ==
    IF MayRetry(w.attempt, w.maxAttempts)
    THEN [w EXCEPT !.pc = "delay", !.outcome = Append(@, how)]
    ELSE [w EXCEPT !.pc = "rejected", !.outcome = Append(@, how),
                   !.error = "FirestoreRetryError"]

\* the operation rejects, or throws when invoked, before the timer fires
OpRejects ==
    \E d \in OpLatencies :
        /\ wrap.pc = "racing"
        /\ wrap.attempt \in wrap.pending
        /\ now' = Later(now, wrap.started + d)
        /\ wrap' = AttemptFailed([wrap EXCEPT !.pending = @ \ {wrap.attempt}], "fail")
        /\ UNCHANGED <<cache, out, lastSet, favorites, events, artists, req>>

\* firestoreTimeout.ts:29-33  the timer wins the race; the operation stays in flight
TimerFires ==
    /\ wrap.pc = "racing"
    /\ now' = wrap.started + TimeoutMs
    /\ wrap' = AttemptFailed(wrap, "timeout")
    /\ UNCHANGED <<cache, out, lastSet, favorites, events, artists, req>>

\* firestoreTimeout.ts:60, then 47-49  the pause is over and the operation is invoked again
DelayFires ==
    /\ wrap.pc = "delay"
    /\ now' = now + DelayMs * wrap.attempt
    /\ wrap' = [wrap EXCEPT !.pc = "racing", !.attempt = @ + 1, !.started = now',
                            !.pending = @ \cup {wrap.attempt + 1}]
    /\ UNCHANGED <<cache, out, lastSet, favorites, events, artists, req>>

\* an operation whose attempt timed out settles after all: nobody is listening
LateSettle ==
    \E i \in wrap.pending :
        /\ i < wrap.attempt \/ wrap.pc # "racing"
        /\ wrap' = [wrap EXCEPT !.pending = @ \ {i}]
        /\ UNCHANGED <<now, cache, out, lastSet, favorites, events, artists, req>>

InitRetry ==
    /\ now = 0
    /\ cache = [k \in {} |-> NullData]
    /\ out = NoOut
    /\ lastSet = [k \in CacheKeys |-> NoSet]
    /\ events = [e \in EventIds |-> [NoEvent EXCEPT !.state = "void"]]
    /\ artists = [a \in ArtistIds |-> [NoArtist EXCEPT !.state = "void"]]
    /\ favorites = <<>>
    /\ req = [r \in {} |-> NoCaller]
    /\ wrap = NoWrap

NextRetry ==
    \/ CallWrapper
    \/ OpResolves
    \/ OpRejects
    \/ TimerFires
    \/ DelayFires
    \/ LateSettle

\* the event loop runs the callbacks of the timers that are due
SpecRetry == InitRetry /\ [][NextRetry]_vars /\ WF_vars(TimerFires) /\ WF_vars(DelayFires)

\* C8: a call with maxAttempts >= 1 never invokes the operation more than maxAttempts times;
\* it resolves with the value of the first attempt that succeeded in time, invoked last; it
\* rejects with FirestoreRetryError after exactly maxAttempts attempts that all failed or
\* timed out; and once made it settles, whatever the operation does.
C8_SettlesWithinAttempts ==
    /\ [](/\ wrap.attempt <= wrap.maxAttempts
          /\ wrap.pc = "resolved" =>
                /\ Len(wrap.outcome) = wrap.attempt
                /\ wrap.outcome[wrap.attempt] = "ok"
                /\ \A j \in 1..(wrap.attempt - 1) : wrap.outcome[j] \in {"fail", "timeout"}
                /\ wrap.value = wrap.attempt
          /\ wrap.pc = "rejected" =>
                /\ wrap.attempt = wrap.maxAttempts
                /\ Len(wrap.outcome) = wrap.maxAttempts
                /\ \A j \in 1..wrap.maxAttempts : wrap.outcome[j] \in {"fail", "timeout"}
                /\ wrap.error = "FirestoreRetryError")
    /\ [][wrap.pc \in {"resolved", "rejected"} =>
              /\ wrap'.pc = wrap.pc /\ wrap'.attempt = wrap.attempt
              /\ wrap'.value = wrap.value]_vars
    /\ (wrap.pc \in {"racing", "delay"}) ~> (wrap.pc \in {"resolved", "rejected"})

\* three attempts were made and timed out, no operation ever settled, and the call rejected
C8_Witness ==
    /\ wrap.pc = "rejected"
    /\ wrap.maxAttempts = 3
    /\ wrap.outcome = <<"timeout", "timeout", "timeout">>
    /\ wrap.pending = {1, 2, 3}
    /\ now = 3 * TimeoutMs + DelayMs + 2 * DelayMs

(***************************************************************************)
(* The list query of events: EventController.getActiveEvents and           *)
(* EventService.getEventsWithFilters over a store that does not change     *)
(***************************************************************************)
MaxPage == 3               \* the largest page number a client asks for
DefaultLimit == 50         \* eventService.ts:177  filters.limit || 50
LimitCap == 100            \* eventService.ts:177  Math.min(..., 100)

\* the documents of a snapshot come in the order of their ids
ListOrder == <<"e1", "e2", "e3">>
ListIds == {ListOrder[i] : i \in 1..Len(ListOrder)}

\* a Firestore Timestamp
Stamp(s) == [seconds |-> s, nanoseconds |-> 0]

\* eventService.ts:975-980  timestampToMillis
TimestampToMillis(t) == t.seconds * 1000 + t.nanoseconds \div 1000000

NoDoc ==
    [state |-> "free", status |-> "none", createdBy |-> "none", title |-> "",
     address |-> "", createdAt |-> Stamp(0), start |-> Stamp(0), end |-> Stamp(0),
     artists |-> <<>>]

\* the documents a slot of the collection may hold
ListDocs ==
    {[state |-> "live", status |-> "approved", createdBy |-> "u1", title |-> "b",
      address |-> "Taipei", createdAt |-> Stamp(1), start |-> Stamp(2), end |-> Stamp(120),
      artists |-> <<[id |-> "a1", name |-> "Ann"]>>],
     [state |-> "live", status |-> "approved", createdBy |-> "u2", title |-> "ab",
      address |-> "Tainan", createdAt |-> Stamp(2), start |-> Stamp(1), end |-> Stamp(30),
      artists |-> <<[id |-> "a2", name |-> "Bo"]>>],
     [state |-> "live", status |-> "pending", createdBy |-> "u1", title |-> "ab",
      address |-> "Taipei", createdAt |-> Stamp(1), start |-> Stamp(1), end |-> Stamp(120),
      artists |-> <<[id |-> "a1", name |-> "Ann"]>>]}

\* String.prototype.toLowerCase over the letters in use
LowerChar(c) == IF c = "A" THEN "a" ELSE IF c = "B" THEN "b" ELSE IF c = "T" THEN "t" ELSE c
RECURSIVE ToLowerCase(_)
ToLowerCase(s) ==
    IF Len(s) = 0 THEN "" ELSE LowerChar(SubSeq(s, 1, 1)) \o ToLowerCase(SubSeq(s, 2, Len(s)))

\* String.prototype.localeCompare over lower-case letters: the sign of the comparison
Alphabet == "abcdefghijklmnopqrstuvwxyz"
CharRank(c) == CHOOSE i \in 1..Len(Alphabet) : SubSeq(Alphabet, i, i) = c
RECURSIVE LocaleCompare(_, _)
LocaleCompare(a, b) ==
    IF Len(a) = 0 /\ Len(b) = 0 THEN 0
    ELSE IF Len(a) = 0 THEN -1
    ELSE IF Len(b) = 0 THEN 1
    ELSE IF SubSeq(a, 1, 1) = SubSeq(b, 1, 1)
         THEN LocaleCompare(SubSeq(a, 2, Len(a)), SubSeq(b, 2, Len(b)))
    ELSE IF CharRank(SubSeq(a, 1, 1)) < CharRank(SubSeq(b, 1, 1)) THEN -1 ELSE 1

\* the query string of GET /events: "" stands for a parameter that is not supplied
Queries ==
    [search : {"", "a"}, artistId : {"", "a1"}, status : {"", "all", "pending"},
     createdBy : {"", "u1"}, limit : {1, 2}, sortBy : {"", "title", "startTime"},
     sortOrder : {"", "asc"}]

\* who asks: nobody signed in, or a signed-in user who is not the creator
ListCallers == {NoCaller, [uid |-> "u2", role |-> "user"]}

Digits == <<"0", "1", "2", "3", "4", "5", "6", "7", "8", "9">>
NumStr(n) == IF n < 10 THEN Digits[n + 1] ELSE Digits[(n \div 10) + 1] \o Digits[(n % 10) + 1]

\* eventService.ts:169  JSON.stringify(filters): the fields in the order the controller
\* wrote them
Stringify(f) ==
    "{" \o f.search \o "," \o f.artistId \o "," \o f.status \o "," \o f.createdBy \o ","
        \o NumStr(f.page) \o "," \o NumStr(f.limit) \o "," \o f.sortBy \o "," \o f.sortOrder
        \o "}"

\* eventService.ts:169
FiltersKey(f) == "events:filters:" \o Stringify(f)

\* part_001:29-34  a signed-in caller asks for somebody else's submissions
Forbidden(caller, f) ==
    /\ f.createdBy # "" /\ caller # NoCaller
    /\ f.createdBy # caller.uid /\ caller.role # "admin"

\* part_001:16-39  the filters handed to the service
FiltersOf(q, page) ==
    [search |-> q.search, artistId |-> q.artistId,
     status |-> IF q.status = "" THEN "approved" ELSE q.status,
     createdBy |-> q.createdBy, page |-> page, limit |-> q.limit, sortBy |-> q.sortBy,
     sortOrder |-> q.sortOrder]

\* eventService.ts:176-178
EffectivePage(f) == IF f.page = 0 THEN 1 ELSE f.page
EffectiveLimit(f) ==
    LET l == IF f.limit = 0 THEN DefaultLimit ELSE f.limit IN IF l < LimitCap THEN l ELSE LimitCap
SkipMut(f) == EffectivePage(f) * EffectiveLimit(f)
Skip(f) == (EffectivePage(f) - 1) * EffectiveLimit(f)

\* eventService.ts:191-199  the snapshot of query.get(), as ids in document order
Snapshot(docs) == SelectSeq(ListOrder, LAMBDA id : docs[id].state = "live")

\* eventService.ts:201-227  the filters applied in memory
Passes(d, f) ==
    /\ f.createdBy # "" => d.createdBy = f.createdBy
    /\ (f.status # "" /\ f.status # "all") => d.status = f.status
    /\ (f.search # "") =>
           \/ Includes(ToLowerCase(d.title), ToLowerCase(f.search))
           \/ \E i \in 1..Len(d.artists) :
                  Includes(ToLowerCase(d.artists[i].name), ToLowerCase(f.search))
           \/ Includes(ToLowerCase(d.address), ToLowerCase(f.search))
    /\ (f.artistId # "") => \E i \in 1..Len(d.artists) : d.artists[i].id = f.artistId

\* eventService.ts:988-1013  the comparator of sortEvents
SortCompare(a, b, sortBy, sortOrder) ==
    IF sortBy = "" THEN TimestampToMillis(b.createdAt) - TimestampToMillis(a.createdAt)
    ELSE LET comparison ==
                 IF sortBy = "title" THEN LocaleCompare(a.title, b.title)
                 ELSE IF sortBy = "startTime"
                      THEN TimestampToMillis(a.start) - TimestampToMillis(b.start)
                 ELSE IF sortBy = "createdAt"
                      THEN TimestampToMillis(a.createdAt) - TimestampToMillis(b.createdAt)
                 ELSE TimestampToMillis(b.createdAt) - TimestampToMillis(a.createdAt)
         IN IF sortOrder = "asc" THEN comparison ELSE 0 - comparison

\* Array.prototype.sort is stable: an element goes behind the elements it does not precede
RECURSIVE InsertSorted(_, _, _, _, _)
InsertSorted(sorted, id, docs, sortBy, sortOrder) ==
    IF Len(sorted) = 0 THEN <<id>>
    ELSE IF SortCompare(docs[id], docs[sorted[Len(sorted)]], sortBy, sortOrder) < 0
         THEN InsertSorted(SubSeq(sorted, 1, Len(sorted) - 1), id, docs, sortBy, sortOrder)
                  \o <<sorted[Len(sorted)]>>
    ELSE sorted \o <<id>>

\* eventService.ts:983-1015  sortEvents
RECURSIVE SortEvents(_, _, _, _)
SortEvents(ids, docs, sortBy, sortOrder) ==
    IF Len(ids) = 0 THEN <<>>
    ELSE InsertSorted(SortEvents(SubSeq(ids, 1, Len(ids) - 1), docs, sortBy, sortOrder),
                      ids[Len(ids)], docs, sortBy, sortOrder)

\* Array.prototype.slice(from, to), indices counted from 0; a negative index counts from
\* the end of the array
Slice(s, from, to) ==
    LET At0(k) == IF k < 0 THEN (IF Len(s) + k < 0 THEN 0 ELSE Len(s) + k)
                  ELSE IF k < Len(s) THEN k ELSE Len(s)
    IN IF At0(from) >= At0(to) THEN <<>> ELSE SubSeq(s, At0(from) + 1, At0(to))

\* Math.ceil(n / d) for n >= 0 and d # 0
CeilDiv(n, d) == IF d > 0 THEN (n + d - 1) \div d ELSE 0 - (n \div (0 - d))

FilteredTotalMut(matched, page) == Len(page)
\* eventService.ts:230  filteredTotal
FilteredTotal(matched, page) == Len(matched)

\* eventService.ts:193-253  the response computed from a snapshot
EventsResponse(docs, f) ==
    LET matched == SelectSeq(Snapshot(docs), LAMBDA id : Passes(docs[id], f))
        sortedEvents == SortEvents(matched, docs, f.sortBy, f.sortOrder)
        page == Slice(sortedEvents, Skip(f), Skip(f) + EffectiveLimit(f))
    IN [kind |-> "events",
        events |-> [i \in 1..Len(page) |-> [id |-> page[i], status |-> docs[page[i]].status]],
        page |-> EffectivePage(f), limit |-> EffectiveLimit(f),
        total |-> FilteredTotal(matched, page),
        totalPages |-> CeilDiv(FilteredTotal(matched, page), EffectiveLimit(f))]

\* the rows of userFavorites while the list of favorites is read
FavoriteRows ==
    <<[userId |-> "u1", eventId |-> "e2", createdAt |-> Stamp(1)],
      [userId |-> "u2", eventId |-> "e1", createdAt |-> Stamp(1)],
      [userId |-> "u1", eventId |-> "e1", createdAt |-> Stamp(1)],
      [userId |-> "u1", eventId |-> "e3", createdAt |-> Stamp(2)]>>

\* the parameters of GET /users/favorites: "" stands for a parameter that is not supplied
FavoriteQueries ==
    [limit : {1, 2}, status : {"", "all"}, sort : {"", "startTime"}, sortOrder : {"", "asc"}]

FavoriteBatch == 30        \* part_009:318  batchSize = 30

ChunksMut(ids, size) ==
    [c \in 1..CeilDiv(Len(ids), size) |->
        Slice(ids, (c - 1) * size, (c - 1) * size + size - 1)]
\* part_009:252-253, 321-322  the slices of batchSize ids
Chunks(ids, size) ==
    [c \in 1..CeilDiv(Len(ids), size) |-> Slice(ids, (c - 1) * size, (c - 1) * size + size)]

\* part_009:275-280
FavoriteFilters(q, page) ==
    [page |-> IF page = 0 THEN 1 ELSE page,
     limit |-> LET l == IF q.limit = 0 THEN 20 ELSE q.limit IN
               IF l < LimitCap THEN l ELSE LimitCap,
     status |-> IF q.status = "" THEN "notEnded" ELSE q.status,
     sort |-> IF q.sort = "" THEN "favoritedAt" ELSE q.sort,
     sortOrder |-> IF q.sortOrder = "" THEN "desc" ELSE q.sortOrder]

\* part_009:283
FavoritesKey(u, q, page) ==
    "favorites:" \o u \o ":{" \o NumStr(page) \o "," \o NumStr(q.limit) \o "," \o q.status
        \o "," \o q.sort \o "," \o q.sortOrder \o "}"

\* part_009:290-292, 310-313  the rows of the user, as positions in the collection
RowsOf(rows, u) == SelectSeq([i \in 1..Len(rows) |-> i], LAMBDA i : rows[i].userId = u)

\* part_009:321-333  the events found by the reads of one slice after the other
EventsMap(rows, mine, docs) ==
    LET slices == Chunks([i \in 1..Len(mine) |-> rows[mine[i]].eventId], FavoriteBatch) IN
    {id \in ListIds : /\ docs[id].state = "live"
                      /\ \E c \in 1..Len(slices) : \E i \in 1..Len(slices[c]) :
                             slices[c][i] = id}

\* part_009:348-367  the filter on the time of the event
TimeStatusOk(d, status, t) ==
    LET startTime == TimestampToMillis(d.start)
        endTime == TimestampToMillis(d.end)
    IN IF status = "all" THEN TRUE
       ELSE IF status = "notEnded" THEN endTime >= t
       ELSE IF status = "active" THEN startTime <= t /\ endTime >= t
       ELSE IF status = "upcoming" THEN startTime > t
       ELSE IF status = "ended" THEN endTime < t
       ELSE TRUE

\* part_009:336-367  a row stays in the results
FavoriteKept(rows, i, found, docs, f, t) ==
    /\ rows[i].eventId \in found
    /\ docs[rows[i].eventId].status = "approved"
    /\ TimeStatusOk(docs[rows[i].eventId], f.status, t)

\* part_009:377-392  the comparator of the sort
FavoriteCompare(rows, docs, i, j, f) ==
    LET comparison ==
            IF f.sort = "startTime"
            THEN TimestampToMillis(docs[rows[i].eventId].start)
                     - TimestampToMillis(docs[rows[j].eventId].start)
            ELSE TimestampToMillis(rows[i].createdAt) - TimestampToMillis(rows[j].createdAt)
    IN IF f.sortOrder = "desc" THEN 0 - comparison ELSE comparison

RECURSIVE FavoriteInsert(_, _, _, _, _)
FavoriteInsert(sorted, i, rows, docs, f) ==
    IF Len(sorted) = 0 THEN <<i>>
    ELSE IF FavoriteCompare(rows, docs, i, sorted[Len(sorted)], f) < 0
         THEN FavoriteInsert(SubSeq(sorted, 1, Len(sorted) - 1), i, rows, docs, f)
                  \o <<sorted[Len(sorted)]>>
    ELSE sorted \o <<i>>

\* part_009:377-392  results.sort(...), a stable sort
RECURSIVE FavoriteSort(_, _, _, _)
FavoriteSort(is, rows, docs, f) ==
    IF Len(is) = 0 THEN <<>>
    ELSE FavoriteInsert(FavoriteSort(SubSeq(is, 1, Len(is) - 1), rows, docs, f),
                        is[Len(is)], rows, docs, f)

FavoriteSkipMut(f) == (f.page - 1) * f.limit + 1
\* part_009:277
FavoriteSkip(f) == (f.page - 1) * f.limit

\* part_009:290-409  the response computed from the two collections
FavoritesResponse(rows, docs, u, f, t) ==
    LET mine == RowsOf(rows, u)
        found == EventsMap(rows, mine, docs)
        results == SelectSeq(mine, LAMBDA i : FavoriteKept(rows, i, found, docs, f, t))
        sorted == FavoriteSort(results, rows, docs, f)
        page == Slice(sorted, FavoriteSkip(f), FavoriteSkip(f) + f.limit)
    IN IF Len(mine) = 0
       THEN [kind |-> "favorites", events |-> <<>>, page |-> f.page, limit |-> f.limit,
             total |-> 0, totalPages |-> 0]
       ELSE [kind |-> "favorites",
             events |-> [i \in 1..Len(page) |->
                             [id |-> page[i], status |-> docs[rows[page[i]].eventId].status]],
             page |-> f.page, limit |-> f.limit, total |-> Len(results),
             totalPages |-> CeilDiv(Len(results), f.limit)]

NoAnswers == [got |-> <<>>, page |-> 0, code |-> 0, cached |-> FALSE]

InitQuery ==
    /\ cache = [k \in {} |-> NullData]
    /\ out = NoAnswers
    /\ lastSet = [k \in {} |-> NoSet]
    /\ events \in [ListIds -> ListDocs \cup {NoDoc}]
    /\ artists = [a \in ArtistIds |-> NoArtist]
    /\ \/ /\ now = 0
          /\ favorites = <<>>
          /\ req \in [Reqs -> [op : {"getActiveEvents"}, caller : ListCallers,
                               query : Queries]]
       \/ /\ now \in {0, MinuteMs}
          /\ favorites = FavoriteRows
          /\ req \in [Reqs -> [op : {"getFavorites"}, caller : {[uid |-> "u1", role |-> "user"]},
                               query : FavoriteQueries]]
    /\ wrap = NoWrap

\* what the client holds after an answer for page
Received(page, code, cached, answer) ==
    [out EXCEPT !.page = page, !.code = code, !.cached = cached,
                !.got = IF code # 200 THEN out.got
                        ELSE IF page > Len(out.got) THEN Append(out.got, answer)
                        ELSE [out.got EXCEPT ![page] = answer]]

\* part_001:14-47 and eventService.ts:166-259  GET /events for the page after the last one
\* received, or once more for the last one received
GetActiveEvents(r) ==
    \E page \in 1..MaxPage, storeOk \in BOOLEAN :
        LET f == FiltersOf(req[r].query, page)
            key == FiltersKey(f)
            cachedResult == CacheGet(cache, key, now)
            result == EventsResponse(events, f)
        IN /\ req[r].op = "getActiveEvents"
           /\ page \in {Len(out.got), Len(out.got) + 1}
           /\ IF Forbidden(req[r].caller, f)
              THEN /\ out' = Received(page, 403, FALSE, NullData)
                   /\ cache' = cache
              ELSE IF cachedResult # NullData
              THEN /\ out' = Received(page, 200, TRUE, cachedResult)
                   /\ cache' = CacheAfterGet(cache, key, now)
              ELSE IF ~storeOk
              THEN /\ out' = Received(page, 500, FALSE, NullData)
                   /\ cache' = CacheAfterGet(cache, key, now)
              ELSE /\ out' = Received(page, 200, FALSE, result)
                   /\ cache' = CacheSet(CacheAfterGet(cache, key, now), key, result, 3, now)
           /\ UNCHANGED <<now, lastSet, favorites, events, artists, req, wrap>>

\* part_009:271-415  UserService.getFavorites for the page after the last one received,
\* or once more for the last one received
GetFavorites(r) ==
    \E page \in 1..MaxPage, storeOk \in BOOLEAN :
        LET u == req[r].caller.uid
            f == FavoriteFilters(req[r].query, page)
            key == FavoritesKey(u, req[r].query, page)
            cachedResult == CacheGet(cache, key, now)
            result == FavoritesResponse(favorites, events, u, f, now)
        IN /\ req[r].op = "getFavorites"
           /\ page \in {Len(out.got), Len(out.got) + 1}
           /\ IF cachedResult # NullData
              THEN /\ out' = Received(page, 200, TRUE, cachedResult)
                   /\ cache' = CacheAfterGet(cache, key, now)
              ELSE IF ~storeOk
              THEN /\ out' = Received(page, 500, FALSE, NullData)
                   /\ cache' = CacheAfterGet(cache, key, now)
              ELSE /\ out' = Received(page, 200, FALSE, result)
                   /\ cache' = CacheSet(CacheAfterGet(cache, key, now), key, result, 1440, now)
           /\ UNCHANGED <<now, lastSet, favorites, events, artists, req, wrap>>

NextQuery == \E r \in Reqs : GetActiveEvents(r) \/ GetFavorites(r)

SpecQuery == InitQuery /\ [][NextQuery]_vars

\* the ids of the items of the first n answers, one page after the other
RECURSIVE ConcatPages(_, _)
ConcatPages(got, n) ==
    IF n = 0 THEN <<>>
    ELSE ConcatPages(got, n - 1) \o [i \in 1..Len(got[n].events) |-> got[n].events[i].id]

\* the stored events that pass the filters of the request
FilteredSet(r) ==
    {id \in ListIds : events[id].state = "live" /\ Passes(events[id], FiltersOf(req[r].query, 1))}

\* the favorites of the caller whose event is stored, approved and passes the time filter
FilteredFavorites(r) ==
    {i \in 1..Len(favorites) :
         /\ favorites[i].userId = req[r].caller.uid
         /\ events[favorites[i].eventId].state = "live"
         /\ events[favorites[i].eventId].status = "approved"
         /\ TimeStatusOk(events[favorites[i].eventId],
                         FavoriteFilters(req[r].query, 1).status, now)}

\* t lists every element of the set S once, in an order the comparator agrees with
SortedListing(t, S, Compare(_, _)) ==
    /\ Len(t) = Cardinality(S)
    /\ {t[i] : i \in 1..Len(t)} = S
    /\ \A i, j \in 1..Len(t) : i < j => Compare(t[i], t[j]) <= 0

\* C11: once pages 1..ceil(N/L) of getEventsWithFilters (of getFavorites) have been
\* received for one store and one set of filter and sort parameters, their items one
\* after the other are the filtered set in sorted order, each item once and none missing
C11_PagesReproduceSortedSet ==
    \A r \in Reqs :
        LET S == IF req[r].op = "getFavorites" THEN FilteredFavorites(r) ELSE FilteredSet(r)
            pages == CeilDiv(Cardinality(S), req[r].query.limit)
        IN Len(out.got) >= pages =>
               IF req[r].op = "getFavorites"
               THEN LET f == FavoriteFilters(req[r].query, 1) IN
                    /\ SortedListing(ConcatPages(out.got, pages), S,
                           LAMBDA i, j : FavoriteCompare(favorites, events, i, j, f))
                    /\ ConcatPages(out.got, pages) =
                           FavoriteSort(SelectSeq([i \in 1..Len(favorites) |-> i],
                                                  LAMBDA i : i \in S),
                                        favorites, events, f)
               ELSE /\ SortedListing(ConcatPages(out.got, pages), S,
                           LAMBDA a, b : SortCompare(events[a], events[b],
                                             req[r].query.sortBy, req[r].query.sortOrder))
                    /\ ConcatPages(out.got, pages) =
                           SortEvents(SelectSeq(Snapshot(events), LAMBDA id : id \in S),
                                      events, req[r].query.sortBy, req[r].query.sortOrder)

\* three matching events read in two pages of limit 2, the second page from the cache
C11_Witness ==
    \A r \in Reqs :
        /\ req[r].op = "getActiveEvents"
        /\ Cardinality(FilteredSet(r)) = 3
        /\ req[r].query.limit = 2
        /\ req[r].query.sortBy = "title"
        /\ Len(out.got) = 2
        /\ Len(out.got[2].events) = 1
        /\ out.cached

Least(a, b) == IF a < b THEN a ELSE b
Greatest(a, b) == IF a > b THEN a ELSE b

NoCoordinates == [given |-> FALSE, lat |-> 0, lng |-> 0]
At(lat, lng) == [given |-> TRUE, lat |-> lat, lng |-> lng]

MapDoc(status, start, end, coordinates) ==
    [state |-> "live", status |-> status, createdBy |-> "u1", title |-> "b",
     address |-> "Taipei", createdAt |-> Stamp(0), start |-> Stamp(start), end |-> Stamp(end),
     artists |-> <<[id |-> "a1", name |-> "Ann"]>>, coordinates |-> coordinates]

\* the documents a slot of the collection may hold while the map is read
MapDocs ==
    {MapDoc("approved", 0, 120, At(1, 1)),
     MapDoc("approved", 0, 120, At(0, 1)),
     MapDoc("approved", 0, 120, At(2, 0)),
     MapDoc("approved", 0, 120, NoCoordinates),
     MapDoc("pending", 0, 120, At(1, 1)),
     MapDoc("approved", 0, 30, At(-1, -1)),
     MapDoc("approved", 90, 120, At(1, -1))}

NoMapDoc ==
    [state |-> "free", status |-> "none", createdBy |-> "none", title |-> "",
     address |-> "", createdAt |-> Stamp(0), start |-> Stamp(0), end |-> Stamp(0),
     artists |-> <<>>, coordinates |-> NoCoordinates]

\* the query string of GET /events/map-data: "" stands for a parameter that is not supplied
MapQueries == [status : {"", "all", "upcoming"}, bounds : {"", "-1,-1,1,1", "1,1,-1,-1"}]

\* String.prototype.split(','): the pieces between the commas
RECURSIVE Split(_)
Split(s) ==
    IF \A i \in 1..Len(s) : SubSeq(s, i, i) # "," THEN <<s>>
    ELSE LET c == CHOOSE i \in 1..Len(s) :
                      /\ SubSeq(s, i, i) = ","
                      /\ \A j \in 1..(i - 1) : SubSeq(s, j, j) # ","
         IN <<SubSeq(s, 1, c - 1)>> \o Split(SubSeq(s, c + 1, Len(s)))

DigitValue(c) == (CHOOSE i \in 1..Len(Digits) : Digits[i] = c) - 1
RECURSIVE Unsigned(_)
Unsigned(s) ==
    IF Len(s) = 0 THEN 0
    ELSE Unsigned(SubSeq(s, 1, Len(s) - 1)) * 10 + DigitValue(SubSeq(s, Len(s), Len(s)))

\* Number(s) for the decimal integers in use
Number(s) ==
    IF Len(s) > 0 /\ SubSeq(s, 1, 1) = "-" THEN 0 - Unsigned(SubSeq(s, 2, Len(s)))
    ELSE Unsigned(s)

\* eventService.ts:341-349  the window of a bounds parameter
ViewBounds(bounds) ==
    LET n == [i \in 1..4 |-> Number(Split(bounds)[i])] IN
    [minLat |-> Least(n[1], n[3]), maxLat |-> Greatest(n[1], n[3]),
     minLng |-> Least(n[2], n[4]), maxLng |-> Greatest(n[2], n[4])]

HasCoordinatesMut(d) == d.coordinates.given
\* eventService.ts:371, 391  coordinates?.lat && coordinates?.lng, by JavaScript's truthiness
HasCoordinates(d) == d.coordinates.given /\ d.coordinates.lat # 0 /\ d.coordinates.lng # 0

\* eventService.ts:369-384  the window filter
InWindow(d, w) ==
    /\ HasCoordinates(d)
    /\ d.coordinates.lat >= w.minLat /\ d.coordinates.lat <= w.maxLat
    /\ d.coordinates.lng >= w.minLng /\ d.coordinates.lng <= w.maxLng

\* eventService.ts:288-311  not ended, and the time filter of the status parameter
MapTimeOk(d, status, t) ==
    /\ TimestampToMillis(d.end) >= t
    /\ IF status = "active"
       THEN TimestampToMillis(d.start) <= t /\ TimestampToMillis(d.end) >= t
       ELSE IF status = "upcoming" THEN TimestampToMillis(d.start) > t
       ELSE TRUE

\* eventService.ts:265
MapStatus(q) == IF q.status = "" THEN "active" ELSE q.status

\* eventService.ts:266
MapKey(q) == "map-data:" \o MapStatus(q) \o ":{" \o q.status \o "," \o q.bounds \o "}"

\* eventService.ts:274-409  the response computed from the store
MapResponse(docs, q, t) ==
    LET approved == SelectSeq(ListOrder, LAMBDA id : /\ docs[id].state = "live"
                                                     /\ docs[id].status = "approved")
        timed == SelectSeq(approved, LAMBDA id : MapTimeOk(docs[id], MapStatus(q), t))
        viewed == IF q.bounds = "" THEN timed
                  ELSE SelectSeq(timed, LAMBDA id : InWindow(docs[id], ViewBounds(q.bounds)))
        mapEvents == SelectSeq(viewed, LAMBDA id : HasCoordinates(docs[id]))
    IN [kind |-> "map", events |-> mapEvents, total |-> Len(mapEvents)]

InitMap ==
    /\ now \in {0, MinuteMs}
    /\ cache = [k \in {} |-> NullData]
    /\ out = NoAnswers
    /\ lastSet = [k \in {} |-> NoSet]
    /\ events \in [ListIds -> MapDocs \cup {NoMapDoc}]
    /\ artists = [a \in ArtistIds |-> NoArtist]
    /\ favorites = <<>>
    /\ req \in [Reqs -> [op : {"getMapData"}, caller : {NoCaller}, query : MapQueries]]
    /\ wrap = NoWrap

\* part_001:234-252 and eventService.ts:262-415  GET /events/map-data
GetMapData(r) ==
    \E storeOk \in BOOLEAN :
        LET key == MapKey(req[r].query)
            cachedResult == CacheGet(cache, key, now)
            result == MapResponse(events, req[r].query, now)
        IN /\ req[r].op = "getMapData"
           /\ IF cachedResult # NullData
              THEN /\ out' = Received(1, 200, TRUE, cachedResult)
                   /\ cache' = CacheAfterGet(cache, key, now)
              ELSE IF ~storeOk
              THEN /\ out' = Received(1, 500, FALSE, NullData)
                   /\ cache' = CacheAfterGet(cache, key, now)
              ELSE /\ out' = Received(1, 200, FALSE, result)
                   /\ cache' = CacheSet(CacheAfterGet(cache, key, now), key, result, 10, now)
           /\ UNCHANGED <<now, lastSet, favorites, events, artists, req, wrap>>

NextMap == \E r \in Reqs : GetMapData(r)

SpecMap == InitMap /\ [][NextMap]_vars

MaxRows == 3               \* the collection userFavorites takes this many adds

FavReqs == {"r1", "r2"}
FavUsers == {"u1", "u2"}

\* a row that was deleted: no query finds it
NoRow == [userId |-> "none", eventId |-> "none", createdAt |-> Stamp(0)]

\* part_009:162-164, 193-195  where('userId', '==', u).where('eventId', '==', e): the ids
\* (positions) of the rows found
RowsFor(rows, u, e) == {i \in 1..Len(rows) : rows[i].userId = u /\ rows[i].eventId = e}

FavIdle ==
    [op |-> "idle", pc |-> "idle", userId |-> "none", eventId |-> "none", attempt |-> 0,
     refs |-> {}, result |-> "none"]

FavDone(q, result) == [q EXCEPT !.pc = "done", !.attempt = 0, !.refs = {}, !.result = result]

FavoriteInvalidateMut(c, u, e) == CacheClearPattern(c, "favorites:" \o u \o ":")

\* part_009:180-181, 209-210  the keys a change of (u, e) clears
FavoriteInvalidate(c, u, e) ==
    CacheClearPattern(CacheDelete(c, "favorite:" \o u \o ":" \o e), "favorites:" \o u \o ":")

InitFavorites ==
    /\ now = 0
    /\ cache = [k \in {} |-> NullData]
    /\ out = NoOut
    /\ lastSet = [k \in {} |-> NoSet]
    /\ events = [e \in EventIds |-> IF e = EventOrder[1] THEN [NoEvent EXCEPT !.state = "live"]
                                     ELSE NoEvent]
    /\ artists = [a \in ArtistIds |-> NoArtist]
    /\ favorites = <<>>
    /\ req = [r \in FavReqs |-> FavIdle]
    /\ wrap = NoWrap

FavStep(r, q) ==
    /\ req' = [req EXCEPT ![r] = q]
    /\ UNCHANGED <<now, out, lastSet, events, artists, wrap>>

\* part_009:152-156  addFavorite is called and asks for the event
StartAddFavorite(r) ==
    \E u \in FavUsers, e \in EventIds :
        /\ req[r].pc = "idle"
        /\ FavStep(r, [FavIdle EXCEPT !.op = "addFavorite", !.pc = "af_event", !.userId = u,
                                      !.eventId = e])
        /\ UNCHANGED <<cache, favorites>>

\* part_009:156-164  the read of the event is answered (or the wrapper gives up)
ContAddFavoriteEvent(r) ==
    \E storeOk \in BOOLEAN :
        /\ req[r].pc = "af_event"
        /\ FavStep(r, IF ~storeOk THEN FavDone(req[r], "StoreUnavailable")
                      ELSE IF events[req[r].eventId].state # "live"
                      THEN FavDone(req[r], "EventNotFound")
                      ELSE [req[r] EXCEPT !.pc = "af_check"])
        /\ UNCHANGED <<cache, favorites>>

\* part_009:162-177  the query for an existing row is answered (or the wrapper gives up)
ContAddFavoriteCheck(r) ==
    \E storeOk \in BOOLEAN :
        /\ req[r].pc = "af_check"
        /\ FavStep(r, IF ~storeOk THEN FavDone(req[r], "StoreUnavailable")
                      ELSE IF RowsFor(favorites, req[r].userId, req[r].eventId) # {}
                      THEN FavDone(req[r], "AlreadyFavorited")
                      ELSE [req[r] EXCEPT !.pc = "af_add", !.attempt = 1])
        /\ UNCHANGED <<cache, favorites>>

\* part_009:177-187 and firestoreTimeout.ts:26-66  one attempt of favoritesCollection.add:
\* the row is written or not, and the attempt is answered in time or not; an answer in
\* time is the row's reference, and the timer does not take a write back
AttemptAddFavorite(r) ==
    \E landed \in BOOLEAN, answered \in BOOLEAN :
        /\ req[r].pc = "af_add"
        /\ answered => landed
        /\ landed => Len(favorites) < MaxRows
        /\ favorites' = IF landed
                        THEN Append(favorites, [userId |-> req[r].userId,
                                                eventId |-> req[r].eventId,
                                                createdAt |-> Stamp(now \div 1000)])
                        ELSE favorites
        /\ IF answered
           THEN /\ cache' = FavoriteInvalidate(cache, req[r].userId, req[r].eventId)
                /\ FavStep(r, FavDone(req[r], "ok"))
           ELSE /\ cache' = cache
                /\ FavStep(r, IF MayRetry(req[r].attempt, MaxAttempts)
                              THEN [req[r] EXCEPT !.attempt = @ + 1]
                              ELSE FavDone(req[r], "StoreUnavailable"))

\* part_009:190-195  removeFavorite is called and asks for the rows of the pair
StartRemoveFavorite(r) ==
    \E u \in FavUsers, e \in EventIds :
        /\ req[r].pc = "idle"
        /\ FavStep(r, [FavIdle EXCEPT !.op = "removeFavorite", !.pc = "rf_query",
                                      !.userId = u, !.eventId = e])
        /\ UNCHANGED <<cache, favorites>>

\* part_009:193-206  the query is answered (or the wrapper gives up)
ContRemoveFavoriteQuery(r) ==
    \E storeOk \in BOOLEAN :
        /\ req[r].pc = "rf_query"
        /\ FavStep(r, IF ~storeOk THEN FavDone(req[r], "StoreUnavailable")
                      ELSE IF RowsFor(favorites, req[r].userId, req[r].eventId) = {}
                      THEN FavDone(req[r], "FavoriteNotFound")
                      ELSE [req[r] EXCEPT !.pc = "rf_commit", !.attempt = 1,
                                          !.refs = RowsFor(favorites, req[r].userId,
                                                           req[r].eventId)])
        /\ UNCHANGED <<cache, favorites>>

\* part_009:202-211 and firestoreTimeout.ts:26-66  one attempt of batch.commit(): the rows
\* of the snapshot are deleted or not, and the attempt is answered in time or not
AttemptRemoveFavorite(r) ==
    \E landed \in BOOLEAN, answered \in BOOLEAN :
        /\ req[r].pc = "rf_commit"
        /\ answered => landed
        /\ favorites' = IF landed
                        THEN [i \in 1..Len(favorites) |->
                                  IF i \in req[r].refs THEN NoRow ELSE favorites[i]]
                        ELSE favorites
        /\ IF answered
           THEN /\ cache' = FavoriteInvalidate(cache, req[r].userId, req[r].eventId)
                /\ FavStep(r, FavDone(req[r], "ok"))
           ELSE /\ cache' = cache
                /\ FavStep(r, IF MayRetry(req[r].attempt, MaxAttempts)
                              THEN [req[r] EXCEPT !.attempt = @ + 1]
                              ELSE FavDone(req[r], "StoreUnavailable"))

\* the caller has its answer; the next call may come
FavReturn(r) ==
    /\ req[r].pc = "done"
    /\ FavStep(r, FavIdle)
    /\ UNCHANGED <<cache, favorites>>

NextFavorites ==
    \E r \in FavReqs :
        \/ StartAddFavorite(r) \/ ContAddFavoriteEvent(r) \/ ContAddFavoriteCheck(r)
        \/ AttemptAddFavorite(r)
        \/ StartRemoveFavorite(r) \/ ContRemoveFavoriteQuery(r) \/ AttemptRemoveFavorite(r)
        \/ FavReturn(r)

SpecFavorites == InitFavorites /\ [][NextFavorites]_vars

\* C14 as claimed: in every state the collection holds at most one row for a pair
\* (userId, eventId), also while two addFavorite calls for the pair are in progress and
\* when the add is tried again after a timeout
C14_OneRowPerPair ==
    \A u \in FavUsers, e \in EventIds : Cardinality(RowsFor(favorites, u, e)) <= 1

(***************************************************************************)
(* UserService.checkFavoritesBatch over id lists longer than one slice     *)
(***************************************************************************)
\* the id of the n-th event of a long list
EventName(n) == "e" \o NumStr(n)

\* lengths of the id lists handed in: none, one, a full slice, one more, two slices and one
BatchLengths == {0, 1, FavoriteBatch, FavoriteBatch + 1, 2 * FavoriteBatch + 1}

\* the events of the lists a user may have a row for
BatchFavored ==
    {EventName(1), EventName(FavoriteBatch), EventName(FavoriteBatch + 1),
     EventName(2 * FavoriteBatch + 1)}

\* the rows of "u1" for a set of events, behind a row of another user
RowsOfSet(S) ==
    <<[userId |-> "u2", eventId |-> EventName(1), createdAt |-> Stamp(0)]>>
        \o [i \in 1..Cardinality(S) |->
                [userId |-> "u1",
                 eventId |-> CHOOSE e \in S :
                                 Cardinality({x \in S : \E m, n \in 1..(2 * FavoriteBatch + 1) :
                                                  /\ x = EventName(m) /\ e = EventName(n)
                                                  /\ m < n}) = i - 1,
                 createdAt |-> Stamp(0)]]

\* part_009:254-264  the event ids of the rows one slice finds, added to the set
ChunkFound(rows, u, slice) ==
    {rows[i].eventId : i \in {j \in 1..Len(rows) :
                                  /\ rows[j].userId = u
                                  /\ \E k \in 1..Len(slice) : slice[k] = rows[j].eventId}}

BatchIdle ==
    [op |-> "idle", pc |-> "idle", userId |-> "none", eventIds |-> <<>>, chunk |-> 0,
     queries |-> 0, favoritedEventIds |-> {}, result |-> "none"]

InitBatch ==
    /\ now = 0
    /\ cache = [k \in {} |-> NullData]
    /\ out = NoOut
    /\ lastSet = [k \in {} |-> NoSet]
    /\ events = [e \in EventIds |-> NoEvent]
    /\ artists = [a \in ArtistIds |-> NoArtist]
    /\ favorites \in {RowsOfSet(S) : S \in SUBSET BatchFavored}
    /\ req = [r \in Reqs |-> BatchIdle]
    /\ wrap = NoWrap

\* part_009:241-252  checkFavoritesBatch is called: an empty list is answered at once
StartCheckFavoritesBatch(r) ==
    \E len \in BatchLengths, backwards \in BOOLEAN :
        LET ids == [i \in 1..len |-> IF backwards THEN EventName(len + 1 - i)
                                     ELSE EventName(i)]
            q == [BatchIdle EXCEPT !.op = "checkFavoritesBatch", !.userId = "u1",
                                   !.eventIds = ids]
        IN /\ req[r].pc = "idle"
           /\ req' = [req EXCEPT ![r] = IF Len(ids) = 0 THEN [q EXCEPT !.pc = "done",
                                                                       !.result = "ok"]
                                        ELSE [q EXCEPT !.pc = "query", !.chunk = 1]]
           /\ UNCHANGED <<now, cache, out, lastSet, events, artists, favorites, wrap>>

\* part_009:252-267  the query for one slice is answered (or the wrapper gives up), and
\* the loop goes on to the next slice or the set is returned
ContCheckFavoritesBatch(r) ==
    \E storeOk \in BOOLEAN :
        LET q == req[r]
            slices == Chunks(q.eventIds, FavoriteBatch)
            found == q.favoritedEventIds \cup ChunkFound(favorites, q.userId, slices[q.chunk])
        IN /\ q.pc = "query"
           /\ req' = [req EXCEPT ![r] =
                         IF ~storeOk
                         THEN [q EXCEPT !.pc = "done", !.result = "StoreUnavailable",
                                        !.favoritedEventIds = {}]
                         ELSE IF q.chunk < Len(slices)
                         THEN [q EXCEPT !.chunk = @ + 1, !.queries = @ + 1,
                                        !.favoritedEventIds = found]
                         ELSE [q EXCEPT !.pc = "done", !.result = "ok", !.queries = @ + 1,
                                        !.favoritedEventIds = found]]
           /\ UNCHANGED <<now, cache, out, lastSet, events, artists, favorites, wrap>>

\* the caller has its answer; the next call may come
BatchReturn(r) ==
    /\ req[r].pc = "done"
    /\ req' = [req EXCEPT ![r] = BatchIdle]
    /\ UNCHANGED <<now, cache, out, lastSet, events, artists, favorites, wrap>>

NextBatch ==
    \E r \in Reqs :
        StartCheckFavoritesBatch(r) \/ ContCheckFavoritesBatch(r) \/ BatchReturn(r)

SpecBatch == InitBatch /\ [][NextBatch]_vars

\* C15: checkFavoritesBatch(u, ids) returns exactly the ids of the list for which a row
\* (u, id) exists, for lists shorter and longer than the slice of 30 and not a multiple of
\* it; an empty list is answered with the empty set and without a query
C15_BatchEqualsMembership ==
    \A r \in Reqs :
        (req[r].pc = "done" /\ req[r].result = "ok") =>
            /\ req[r].favoritedEventIds =
                   {e \in {req[r].eventIds[i] : i \in 1..Len(req[r].eventIds)} :
                        RowsFor(favorites, req[r].userId, e) # {}}
            /\ req[r].queries = CeilDiv(Len(req[r].eventIds), FavoriteBatch)
            /\ Len(req[r].eventIds) = 0 =>
                   req[r].queries = 0 /\ req[r].favoritedEventIds = {}

\* a list of 61 ids answered by three queries: rows found in the first slice, at its last
\* position, in the second and in the slice of one
C15_Witness ==
    \A r \in Reqs :
        /\ req[r].pc = "done" /\ req[r].result = "ok"
        /\ Len(req[r].eventIds) = 2 * FavoriteBatch + 1
        /\ req[r].queries = 3
        /\ req[r].favoritedEventIds = BatchFavored

(***************************************************************************)
(* Deleting performers and events: ArtistService.deleteArtist next to       *)
(* createEvent and deleteEvent, one request at a time                      *)
(***************************************************************************)
\* artistRoutes.ts (requireAdmin) and artistService.ts:373-380  deleteArtist, up to the read
\* of the whole collection of events
StartDeleteArtist(r) ==
    \E c \in Callers, a \in InPlay("artists") :
        /\ req[r].pc = "idle"
        /\ c.role = "admin"
        /\ Step(r, Await([Blank EXCEPT !.op = "deleteArtist", !.caller = c, !.aid = a],
                         "da_query", [kind |-> "query", coll |-> "events", status |-> "any"]))
        /\ UNCHANGED cache

\* artistService.ts:383-390  some document of the snapshot lists the performer
HasEvents(resp, a) == \E e \in resp.docs : SeqHas(resp.snap[e].artists, a)

\* artistService.ts:380-396  the conflict check, then the delete
ContDeleteArtistQuery(r) ==
    /\ req[r].pc = "resp" /\ req[r].at = "da_query"
    /\ Step(r, IF ~req[r].resp.ok THEN Finish(req[r], "StoreUnavailable", NullData)
               ELSE IF HasEvents(req[r].resp, req[r].aid)
               THEN Finish(req[r], "Conflict", NullData)
               ELSE Await(req[r], "da_delete",
                          [kind |-> "delete", coll |-> "artists", id |-> req[r].aid]))
    /\ UNCHANGED cache

\* artistService.ts:396-397
ContDeleteArtistDelete(r) ==
    /\ req[r].pc = "resp" /\ req[r].at = "da_delete"
    /\ Step(r, IF req[r].resp.ok THEN Finish(req[r], "ok", NullData)
               ELSE Finish(req[r], "StoreUnavailable", NullData))
    /\ UNCHANGED cache

\* two requests are served at a time
RefReqs == {"r1", "r2"}

InitRefs ==
    /\ now = 0
    /\ cache = [k \in {} |-> NullData]
    /\ out = NoOut
    /\ lastSet = [k \in CacheKeys |-> NoSet]
    /\ events = [e \in EventIds |-> IF e = EventOrder[1] THEN NoEvent
                                     ELSE [NoEvent EXCEPT !.state = "void"]]
    /\ artists = [a \in ArtistIds |->
                     IF a = ArtistOrder[1]
                     THEN [NoArtist EXCEPT !.state = "live", !.status = "approved",
                                           !.createdBy = "u1"]
                     ELSE [NoArtist EXCEPT !.state = "void"]]
    /\ favorites = <<>>
    /\ req = [r \in RefReqs |-> Blank]
    /\ wrap = NoWrap

NextRefs ==
    \E r \in RefReqs :
        \/ StoreOk(r) \/ StoreFail(r) \/ StoreLost(r) \/ Return(r)
        \/ StartCreateEvent(r) \/ ContCreateEventArtist(r) \/ ContCreateEventAdd(r)
        \/ StartDeleteEvent(r) \/ ContDeleteEventGet(r) \/ ContRemoveGet(r)
        \/ ContRemoveCommit(r) \/ ContDeleteEventDelete(r)
        \/ StartDeleteArtist(r) \/ ContDeleteArtistQuery(r) \/ ContDeleteArtistDelete(r)

SpecRefs == InitRefs /\ [][NextRefs]_vars

\* the stored events that list performer a
Listing(a) == {e \in EventIds : events[e].state = "live" /\ SeqHas(events[e].artists, a)}

\* C16 as claimed: deleteArtist sends its delete exactly when no stored event lists the
\* performer, and otherwise throws the conflict error and leaves the performers as they
\* are; a performer's record disappears only by that delete, while no stored event lists
\* it, and no stored event ever lists a performer that has been deleted
C16_DeleteOnlyUnreferenced ==
    /\ [](\A a \in ArtistIds : artists[a].state = "deleted" => Listing(a) = {})
    /\ [][\A r \in RefReqs :
             /\ (req[r].pc = "resp" /\ req[r].at = "da_query" /\ req[r].resp.ok
                 /\ req'[r] # req[r]) =>
                    /\ artists' = artists
                    /\ IF Listing(req[r].aid) = {}
                       THEN /\ req'[r].pc = "call"
                            /\ req'[r].call = [kind |-> "delete", coll |-> "artists",
                                               id |-> req[r].aid]
                       ELSE req'[r].pc = "done" /\ req'[r].result = "Conflict"
             /\ \A a \in ArtistIds :
                    (artists[a].state = "live" /\ artists'[a].state # "live"
                     /\ req'[r] # req[r]) =>
                        /\ req[r].op = "deleteArtist" /\ req[r].aid = a
                        /\ req[r].pc = "call" /\ req[r].at = "da_delete"
                        /\ Listing(a) = {}
                        /\ artists'[a].state = "deleted"]_vars

(***************************************************************************)
(* Who may delete an event                                                 *)
(***************************************************************************)

PerformerStates ==
    {[NoArtist EXCEPT !.state = "live", !.status = st, !.createdBy = "u1"] :
         st \in {"approved", "pending", "rejected"}} \cup {Gone("artists")}

\* cache.ts:30-36  the keys createEvent clears, filled by earlier readers
FilledCache ==
    LET keys == <<"events:status:approved", "map-data:active:{}", "artist:a1:eventCount",
                  "artist:a2:eventCount", "event:e1">>
        fill[i \in 0..Len(keys)] ==
            IF i = 0 THEN [k \in {} |-> NullData]
            ELSE CacheSet(fill[i - 1], keys[i], [kind |-> "event", status |-> "approved"],
                          1, 0)
    IN fill[Len(keys)]

InitCreate ==
    /\ now = 0
    /\ cache = FilledCache
    /\ out = NoOut
    /\ lastSet = [k \in CacheKeys |-> NoSet]
    /\ events = [e \in EventIds |-> NoEvent]
    /\ artists \in [ArtistIds -> PerformerStates]
    /\ favorites = <<>>
    /\ req = [r \in Reqs |-> Blank]
    /\ wrap = NoWrap

NextCreate ==
    \E r \in Reqs :
        \/ StoreOk(r) \/ StoreFail(r) \/ StoreLost(r) \/ Return(r)
        \/ StartCreateEvent(r) \/ ContCreateEventArtist(r) \/ ContCreateEventAdd(r)

SpecCreate == InitCreate /\ [][NextCreate]_vars

\* the performers of a createEvent call that fail its test in the store as it is
Unapproved(q) == {i \in 1..Len(q.aids) : ~(/\ artists[q.aids[i]].state = "live"
                                            /\ artists[q.aids[i]].status = "approved")}

\* C18: an event record appears in the store only by a createEvent whose artistIds all
\* name stored performers with status approved, and it lists exactly those performers;
\* while a createEvent works with an id that is missing or not approved, no step of it
\* changes the events or the cache, and it ends with an error
C18_CreateEventValidated ==
    [][\A r \in Reqs :
          /\ \A e \in EventIds :
                 (events[e].state # "live" /\ events'[e].state = "live") =>
                     /\ req[r].op = "createEvent"
                     /\ Unapproved(req[r]) = {}
                     /\ events'[e].artists = req[r].aids
                     /\ events'[e].status = "pending"
          /\ (req[r].op = "createEvent" /\ Unapproved(req[r]) # {}
              /\ req'[r] # req[r]) =>
                 /\ events' = events
                 /\ cache' = cache
                 /\ Finishes(r) =>
                        req'[r].result = IF req[r].resp.ok THEN "ValidationError"
                                         ELSE "StoreUnavailable"]_vars

\* a createEvent has failed on its second performer while the cache holds entries
C18_Witness ==
    \E r \in Reqs :
        /\ req[r].pc = "done" /\ req[r].op = "createEvent"
        /\ req[r].result = "ValidationError"
        /\ Len(req[r].aids) = 2
        /\ Unapproved(req[r]) = {2}
        /\ cache = FilledCache
        /\ \A e \in EventIds : events[e].state # "live"

(***************************************************************************)
(* What the list query shows a caller who has not signed in                *)
(***************************************************************************)

\* C19 as claimed: whatever the query of a caller who has not signed in, every event in
\* every answer the caller receives has status approved
C19_PublicOnlyApproved ==
    \A r \in Reqs :
        (req[r].op = "getActiveEvents" /\ req[r].caller = NoCaller) =>
            \A i \in 1..Len(out.got) :
                \A j \in 1..Len(out.got[i].events) :
                    out.got[i].events[j].status = "approved"

(***************************************************************************)
(* Approval followed by rejection                                          *)
(***************************************************************************)

\* C20: with one operation at a time, when updateEventStatus(E, approved) returns and no
\* store call of it failed, every stored performer that E lists has E's id in
\* activeEventIds; when an updateEventStatus(E, rejected) that found E approved returns
\* and no store call of it failed, no performer at all has E's id in activeEventIds
C20_ApproveThenReject ==
    [][\A r \in Reqs :
          (/\ Finishes(r)
           /\ req'[r].op = "updateEventStatus"
           /\ req'[r].result = "ok"
           /\ ~req'[r].xrefFailed) =>
              LET E == req'[r].eid IN
              /\ req'[r].target = "approved" =>
                     /\ events'[E].status = "approved"
                     /\ \A a \in ArtistIds :
                            (SeqHas(events'[E].artists, a) /\ artists'[a].state = "live") =>
                                SeqHas(artists'[a].activeEventIds, E)
              /\ (req'[r].target = "rejected" /\ req'[r].seen.status = "approved") =>
                     /\ events'[E].status = "rejected"
                     /\ \A a \in ArtistIds : ~SeqHas(artists'[a].activeEventIds, E)]_vars

\* the scenario's last state: E was approved, its rejection has returned, and the
\* performer E lists is stored with an empty activeEventIds
C20_Witness ==
    \E r \in Reqs :
        /\ req[r].pc = "done" /\ req[r].op = "updateEventStatus" /\ req[r].result = "ok"
        /\ req[r].target = "rejected" /\ ~req[r].xrefFailed
        /\ req[r].seen.status = "approved"
        /\ events[req[r].eid].status = "rejected"
        /\ \E a \in ArtistIds : /\ SeqHas(events[req[r].eid].artists, a)
                                /\ artists[a].state = "live"
                                /\ artists[a].status = "approved"
                                /\ artists[a].activeEventIds = <<>>

(***************************************************************************)
(* Field edits: updateEvent (eventService.ts:515-584) and updateArtist     *)
(* (artistService.ts:203-248)                                              *)
(***************************************************************************)
Titles == {"t1", "t2"}
Owners == {"u1", "u2"}

\* a stored event and a stored performer with the fields an edit writes
EditEvent(status, owner) ==
    [state |-> "live", status |-> status, createdBy |-> owner, artists |-> <<"a1">>,
     start |-> 0, end |-> MinuteMs \div 2,
     rejectedReason |-> IF status = "rejected" THEN "r1" ELSE "none",
     title |-> "t1", createdAt |-> 0, updatedAt |-> 0]

EditArtist(status, owner) ==
    [state |-> "live", status |-> status, createdBy |-> owner, activeEventIds |-> <<>>,
     rejectedReason |-> IF status = "rejected" THEN "r1" ELSE "none",
     stageName |-> "t1", createdAt |-> 0, updatedAt |-> 0]

\* the rule of the specification: an administrator, or the creator while the record is
\* pending or rejected
EditAllowed(doc, caller) ==
    \/ caller.role = "admin"
    \/ doc.createdBy = caller.uid /\ doc.status \in {"pending", "rejected"}

\* eventService.ts:532 and artistService.ts:222  who may edit
MayEdit(doc, caller) == caller.role = "admin" \/ doc.createdBy = caller.uid

\* eventService.ts:515-523  updateEvent, up to the read
StartUpdateEvent(r) ==
    \E c \in Callers, e \in InPlay("events") :
        /\ req[r].pc = "idle"
        /\ Step(r, Await([Blank EXCEPT !.op = "updateEvent", !.caller = c, !.eid = e],
                         "upe_get", GetEvent(e)))
        /\ UNCHANGED cache

\* eventService.ts:525-564  the checks and the update; the body names a title and may
\* name a location (located: its latitude and longitude are truthy)
ContUpdateEventGet(r) ==
    /\ req[r].pc = "resp" /\ req[r].at = "upe_get"
    /\ \E t \in Titles, located \in BOOLEAN :
        Step(r, IF ~req[r].resp.ok THEN Finish(req[r], "StoreUnavailable", NullData)
                ELSE IF req[r].resp.doc.state # "live"
                THEN Finish(req[r], "NotFound", NullData)
                ELSE IF ~MayEdit(req[r].resp.doc, req[r].caller)
                THEN Finish([req[r] EXCEPT !.seen = req[r].resp.doc], "PermissionDenied",
                            NullData)
                ELSE IF ~located
                THEN Finish([req[r] EXCEPT !.seen = req[r].resp.doc], "InvalidCoordinates",
                            NullData)
                ELSE Await([req[r] EXCEPT !.seen = req[r].resp.doc], "upe_update",
                           [kind |-> "update", coll |-> "events", id |-> req[r].eid,
                            patch |-> [title |-> t, updatedAt |-> now]]))
    /\ UNCHANGED cache

\* eventService.ts:566-577
UpdateEventInvalidate(c, e, ids) ==
    CacheClearPattern(
        CacheDeleteAll(
            CacheDelete(CacheClearPattern(CacheClearPattern(c, "events:"), "map-data:"),
                        "event:" \o e),
            EventCountKeys(ids)),
        "artists:stats:")

\* eventService.ts:564-579
ContUpdateEventUpdate(r) ==
    /\ req[r].pc = "resp" /\ req[r].at = "upe_update"
    /\ IF req[r].resp.ok
       THEN /\ cache' = UpdateEventInvalidate(cache, req[r].eid, req[r].seen.artists)
            /\ Step(r, Await(req[r], "upe_reget", GetEvent(req[r].eid)))
       ELSE /\ cache' = cache
            /\ Step(r, Finish(req[r], "StoreUnavailable", NullData))

\* eventService.ts:579-584
ContUpdateEventReget(r) ==
    /\ req[r].pc = "resp" /\ req[r].at = "upe_reget"
    /\ Step(r, IF req[r].resp.ok
               THEN Finish(req[r], "ok", EventValue(req[r].eid, req[r].resp.doc))
               ELSE Finish(req[r], "StoreUnavailable", NullData))
    /\ UNCHANGED cache

\* artistService.ts:203-213  updateArtist, up to the read
StartUpdateArtist(r) ==
    \E c \in Callers, a \in InPlay("artists") :
        /\ req[r].pc = "idle"
        /\ Step(r, Await([Blank EXCEPT !.op = "updateArtist", !.caller = c, !.aid = a],
                         "upa_get", [kind |-> "get", coll |-> "artists", id |-> a]))
        /\ UNCHANGED cache

\* artistService.ts:213-232
ContUpdateArtistGet(r) ==
    /\ req[r].pc = "resp" /\ req[r].at = "upa_get"
    /\ \E t \in Titles :
        Step(r, IF ~req[r].resp.ok THEN Finish(req[r], "StoreUnavailable", NullData)
                ELSE IF req[r].resp.doc.state # "live"
                THEN Finish(req[r], "NotFound", NullData)
                ELSE IF ~MayEdit(req[r].resp.doc, req[r].caller)
                THEN Finish([req[r] EXCEPT !.seen = req[r].resp.doc], "PermissionDenied",
                            NullData)
                ELSE Await([req[r] EXCEPT !.seen = req[r].resp.doc], "upa_update",
                           [kind |-> "update", coll |-> "artists", id |-> req[r].aid,
                            patch |-> [stageName |-> t, updatedAt |-> now]]))
    /\ UNCHANGED cache

\* artistService.ts:234-241
UpdateArtistInvalidate(c, a) ==
    CacheClearPattern(
        CacheClearPattern(CacheDelete(CacheDelete(c, "artists:approved"), "artist:" \o a),
                          "artists:filters:"),
        "artists:status:")

\* artistService.ts:232-248
ContUpdateArtistUpdate(r) ==
    /\ req[r].pc = "resp" /\ req[r].at = "upa_update"
    /\ IF req[r].resp.ok
       THEN /\ cache' = UpdateArtistInvalidate(cache, req[r].aid)
            /\ Step(r, Finish(req[r], "ok", NullData))
       ELSE /\ cache' = cache
            /\ Step(r, Finish(req[r], "StoreUnavailable", NullData))

InitEdit ==
    /\ now \in {0, MinuteMs}
    /\ cache = FilledCache
    /\ out = NoOut
    /\ lastSet = [k \in CacheKeys |-> NoSet]
    /\ \E st \in {"pending", "approved", "rejected"}, o \in Owners :
           events = [e \in EventIds |-> IF e = EventOrder[1] THEN EditEvent(st, o)
                                        ELSE [NoEvent EXCEPT !.state = "void"]]
    /\ \E st \in {"pending", "approved", "rejected"}, o \in Owners :
           artists = [a \in ArtistIds |-> IF a = ArtistOrder[1] THEN EditArtist(st, o)
                                          ELSE [NoArtist EXCEPT !.state = "void"]]
    /\ favorites = <<>>
    /\ req = [r \in Reqs |-> Blank]
    /\ wrap = NoWrap

NextEdit ==
    \E r \in Reqs :
        \/ StoreOk(r) \/ StoreFail(r) \/ StoreLost(r) \/ Return(r)
        \/ StartUpdateEvent(r) \/ ContUpdateEventGet(r) \/ ContUpdateEventUpdate(r)
        \/ ContUpdateEventReget(r)
        \/ StartUpdateArtist(r) \/ ContUpdateArtistGet(r) \/ ContUpdateArtistUpdate(r)

SpecEdit == InitEdit /\ [][NextEdit]_vars

\* the record an edit in progress names
Edited(q) == IF q.op = "updateEvent" THEN events[q.eid] ELSE artists[q.aid]

\* C21 as claimed: an edit returns normally only when the rule allows it; while an edit the
\* rule does not allow works on a stored record, no step of it changes a record, and it
\* ends with the permission error (or the store's error when the read fails)
C21_EditGuarded ==
    [][\A r \in Reqs :
          (req[r].op \in {"updateEvent", "updateArtist"} /\ req'[r] # req[r]
           /\ Edited(req[r]).state = "live"
           /\ ~EditAllowed(Edited(req[r]), req[r].caller)) =>
              /\ events' = events
              /\ artists' = artists
              /\ Finishes(r) =>
                     req'[r].result = IF req[r].resp.ok THEN "PermissionDenied"
                                      ELSE "StoreUnavailable"]_vars

(***************************************************************************)
(* UserService.isFavorited beside addFavorite and removeFavorite, one call *)
(* at a time (src/unnamed/part_009:214-238)                                *)
(***************************************************************************)
\* a cached boolean and the answer the caller gets
Boolean(b) == [kind |-> "boolean", value |-> IF b THEN "true" ELSE "false"]

FavoriteKey(u, e) == "favorite:" \o u \o ":" \o e

\* part_009:214-223  isFavorited is called: a cached answer, true or false, is returned
StartIsFavorited(r) ==
    \E u \in FavUsers, e \in EventIds :
        LET cachedResult == CacheGet(cache, FavoriteKey(u, e), now)
            q == [FavIdle EXCEPT !.op = "isFavorited", !.userId = u, !.eventId = e]
        IN /\ req[r].pc = "idle"
           /\ cache' = CacheAfterGet(cache, FavoriteKey(u, e), now)
           /\ FavStep(r, IF cachedResult # NullData THEN FavDone(q, cachedResult.value)
                         ELSE [q EXCEPT !.pc = "if_query"])
           /\ UNCHANGED favorites

\* part_009:225-238  the query is answered (or the wrapper gives up); the answer is cached
\* for 1440 minutes
ContIsFavorited(r) ==
    \E storeOk \in BOOLEAN :
        LET u == req[r].userId
            e == req[r].eventId
            result == Boolean(RowsFor(favorites, u, e) # {})
        IN /\ req[r].pc = "if_query"
           /\ cache' = IF storeOk THEN CacheSet(cache, FavoriteKey(u, e), result, 1440, now)
                       ELSE cache
           /\ FavStep(r, FavDone(req[r], IF storeOk THEN result.value
                                         ELSE "StoreUnavailable"))
           /\ UNCHANGED favorites

\* what the one client has been told last about each pair: by addFavorite or
\* removeFavorite (changed), and by isFavorited (told)
NoneTold == [changed |-> "none", told |-> "none"]

\* the client takes the answer of its call and may call again
FavReturnTold(r) ==
    LET q == req[r]
        pair == <<q.userId, q.eventId>>
    IN /\ q.pc = "done"
       /\ req' = [req EXCEPT ![r] = FavIdle]
       /\ out' = IF q.op = "isFavorited"
                 THEN IF q.result \in {"true", "false"}
                      THEN [out EXCEPT ![pair].told = q.result] ELSE out
                 ELSE [out EXCEPT ![pair].changed = IF q.result = "ok" THEN q.op ELSE "none"]
       /\ UNCHANGED <<now, cache, lastSet, favorites, events, artists, wrap>>

InitIsFavorited ==
    /\ now = 0
    /\ cache = [k \in {} |-> NullData]
    /\ out = [pair \in FavUsers \X EventIds |-> NoneTold]
    /\ lastSet = [k \in {} |-> NoSet]
    /\ events = [e \in EventIds |-> IF e = EventOrder[1] THEN [NoEvent EXCEPT !.state = "live"]
                                     ELSE NoEvent]
    /\ artists = [a \in ArtistIds |-> NoArtist]
    /\ favorites = <<>>
    /\ req = [r \in Reqs |-> FavIdle]
    /\ wrap = NoWrap

NextIsFavorited ==
    \E r \in Reqs :
        \/ StartAddFavorite(r) \/ ContAddFavoriteEvent(r) \/ ContAddFavoriteCheck(r)
        \/ AttemptAddFavorite(r)
        \/ StartRemoveFavorite(r) \/ ContRemoveFavoriteQuery(r) \/ AttemptRemoveFavorite(r)
        \/ StartIsFavorited(r) \/ ContIsFavorited(r)
        \/ FavReturnTold(r)

SpecIsFavorited == InitIsFavorited /\ [][NextIsFavorited]_vars

\* C22: with one call at a time, an isFavorited(u, e) that answers while the last
\* addFavorite or removeFavorite of (u, e) returned normally answers true after the add and
\* false after the remove, whatever isFavorited had answered, and cached, before
C22_IsFavoritedFollowsChange ==
    \A r \in Reqs :
        (/\ req[r].pc = "done" /\ req[r].op = "isFavorited"
         /\ req[r].result \in {"true", "false"}) =>
            LET last == out[<<req[r].userId, req[r].eventId>>].changed IN
            /\ last = "addFavorite" => req[r].result = "true"
            /\ last = "removeFavorite" => req[r].result = "false"

\* isFavorited answered true and was cached, the remove returned, and isFavorited now
\* answers false
C22_Witness ==
    \E r \in Reqs :
        LET told == out[<<req[r].userId, req[r].eventId>>] IN
        /\ req[r].pc = "done" /\ req[r].op = "isFavorited"
        /\ req[r].result = "false"
        /\ told.changed = "removeFavorite"
        /\ told.told = "true"

(***************************************************************************)
(* Cached not-found answers                                                *)
(***************************************************************************)

\* C23 as claimed: a getEventById that starts while the cache holds the not-found answer
\* of an earlier call for the id, not expired and not invalidated, returns not-found at
\* once, without a store read
C23_NotFoundServedFromCache ==
    [][\A r \in Reqs :
          (/\ req[r].pc = "idle" /\ req'[r].op = "getEventById"
           /\ ("event:" \o req'[r].eid) \in DOMAIN cache
           /\ ~Expired(cache["event:" \o req'[r].eid], now)
           /\ cache["event:" \o req'[r].eid].data = NullData) =>
              /\ req'[r].pc = "done"
              /\ req'[r].result = "ok"
              /\ req'[r].value = NullData]_vars

(***************************************************************************)
(* rejectedReason goes with status rejected                                *)
(***************************************************************************)
\* the stored records of both collections
Records == {events[e] : e \in EventIds} \cup {artists[a] : a \in ArtistIds}

CleanupEvents ==
    {[NoEvent EXCEPT !.state = "live", !.status = "approved", !.createdBy = "u1",
                     !.artists = ArtistOrder, !.end = e] : e \in {0, 2 * MinuteMs}}
      \cup {[NoEvent EXCEPT !.state = "live", !.status = "rejected", !.createdBy = "u1",
                            !.artists = ArtistOrder, !.end = 2 * MinuteMs],
            Gone("events")}

\* the performers the job may meet, with the lists earlier operations may have left
CleanupArtists ==
    {[NoArtist EXCEPT !.state = "live", !.status = st, !.createdBy = "u1",
                      !.activeEventIds = l] :
         st \in {"approved", "pending"},
         l \in {<<>>, <<"e1">>, <<"e2">>, <<"e1", "e2">>}}

CleanupIdle ==
    [op |-> "idle", pc |-> "idle", at |-> "none", call |-> NoCall, resp |-> NoResp,
     todo |-> <<>>, active |-> <<>>, pos |-> 0, valid |-> <<>>, batch |-> <<>>,
     result |-> "none"]

CleanupDone(q, result) == [CleanupIdle EXCEPT !.op = q.op, !.pc = "done", !.result = result]

\* part_020:71-83 and 115-120  on to the next performer of the snapshot that has a
\* non-empty list, or to the commit, or to the end when nothing is to be written
CleanupTurn(q) ==
    IF Len(q.todo) > 0
    THEN Await([q EXCEPT !.active = q.todo[1].activeEventIds, !.pos = 1, !.valid = <<>>],
               "cl_event", GetEvent(q.todo[1].activeEventIds[1]))
    ELSE IF Len(q.batch) > 0
    THEN Await(q, "cl_commit", [kind |-> "commit", writes |-> q.batch])
    ELSE CleanupDone(q, "ok")

\* part_020:58-64  the job starts and asks for the approved performers
StartCleanup(r) ==
    /\ req[r].pc = "idle"
    /\ Step(r, Await([CleanupIdle EXCEPT !.op = "cleanup"], "cl_query",
                     [kind |-> "query", coll |-> "artists", status |-> "approved"]))
    /\ UNCHANGED cache

\* part_020:64-83  the snapshot in document order; a performer with an empty list is skipped
ContCleanupQuery(r) ==
    /\ req[r].pc = "resp" /\ req[r].at = "cl_query"
    /\ LET docs == SelectSeq(ArtistOrder, LAMBDA a : a \in req[r].resp.docs)
           listed == SelectSeq(docs, LAMBDA a : Len(req[r].resp.snap[a].activeEventIds) > 0)
           todo == [i \in 1..Len(listed) |->
                        [id |-> listed[i],
                         activeEventIds |-> req[r].resp.snap[listed[i]].activeEventIds]]
       IN Step(r, IF ~req[r].resp.ok THEN CleanupDone(req[r], "StoreUnavailable")
                  ELSE CleanupTurn([req[r] EXCEPT !.todo = todo]))
    /\ UNCHANGED cache

\* part_020:85-95  the event is approved and ends after the job's start
StillActive(doc, t) == doc.state = "live" /\ doc.status = "approved" /\ doc.end > t

\* part_020:83-112  one event of the list has been read
ContCleanupEvent(r) ==
    /\ req[r].pc = "resp" /\ req[r].at = "cl_event"
    /\ LET q == req[r]
           eventId == q.active[q.pos]
           validEventIds == IF q.resp.ok /\ StillActive(q.resp.doc, now)
                            THEN Append(q.valid, eventId) ELSE q.valid
           batch == IF Len(validEventIds) # Len(q.active)
                    THEN Append(q.batch, [id |-> q.todo[1].id,
                                          patch |-> [activeEventIds |-> validEventIds]])
                    ELSE q.batch
       IN Step(r, IF ~q.resp.ok THEN CleanupDone(q, "StoreUnavailable")
                  ELSE IF q.pos < Len(q.active)
                  THEN Await([q EXCEPT !.pos = @ + 1, !.valid = validEventIds], "cl_event",
                             GetEvent(q.active[q.pos + 1]))
                  ELSE CleanupTurn([q EXCEPT !.todo = Tail(@), !.batch = batch]))
    /\ UNCHANGED cache

\* part_020:115-123
ContCleanupCommit(r) ==
    /\ req[r].pc = "resp" /\ req[r].at = "cl_commit"
    /\ Step(r, CleanupDone(req[r], IF req[r].resp.ok THEN "ok" ELSE "StoreUnavailable"))
    /\ UNCHANGED cache

\* the scheduler starts the job again the next day
CleanupReturn(r) ==
    /\ req[r].pc = "done"
    /\ Step(r, CleanupIdle)
    /\ UNCHANGED cache

InitCleanup ==
    /\ now = MinuteMs
    /\ cache = [k \in {} |-> NullData]
    /\ out = NoOut
    /\ lastSet = [k \in CacheKeys |-> NoSet]
    /\ events \in [EventIds -> CleanupEvents]
    /\ artists \in [ArtistIds -> CleanupArtists]
    /\ favorites = <<>>
    /\ req = [r \in Reqs |-> CleanupIdle]
    /\ wrap = NoWrap

NextCleanup ==
    \E r \in Reqs :
        \/ StoreOk(r) \/ StoreFail(r) \/ StoreLost(r)
        \/ StartCleanup(r) \/ ContCleanupQuery(r) \/ ContCleanupEvent(r)
        \/ ContCleanupCommit(r) \/ CleanupReturn(r)

SpecCleanup == InitCleanup /\ [][NextCleanup]_vars

\* C25 as claimed: when the job has run to its end, the activeEventIds of every approved
\* performer is exactly the set of stored, approved, not ended events that list the
\* performer
C25_CleanupRestoresExact ==
    \A r \in Reqs :
        (req[r].pc = "done" /\ req[r].op = "cleanup" /\ req[r].result = "ok") =>
            \A a \in ArtistIds :
                (artists[a].state = "live" /\ artists[a].status = "approved") =>
                    Range(artists[a].activeEventIds) = ListedActive(a, now)

\* what the job does restore: no approved performer keeps the id of an event that is
\* ended, rejected or deleted
CleanupRemovesSurplus ==
    \A r \in Reqs :
        (req[r].pc = "done" /\ req[r].op = "cleanup" /\ req[r].result = "ok") =>
            \A a \in ArtistIds :
                (artists[a].state = "live" /\ artists[a].status = "approved") =>
                    Range(artists[a].activeEventIds) \subseteq ListedActive(a, now)

(***************************************************************************)
(* EventService.getActiveEvents (eventService.ts:67-97) while time passes  *)
(***************************************************************************)
\* the ids of a set of events in document-id order
RECURSIVE InIdOrder(_, _)
InIdOrder(ids, i) ==
    IF i > Len(EventOrder) THEN <<>>
    ELSE (IF EventOrder[i] \in ids THEN <<EventOrder[i]>> ELSE <<>>) \o InIdOrder(ids, i + 1)

\* orderBy('datetime.start', 'asc'): by start, documents of equal start in id order
RECURSIVE ByStart(_, _)
ByStart(ids, docs) ==
    IF ids = <<>> THEN <<>>
    ELSE LET first == CHOOSE i \in 1..Len(ids) :
                          \A j \in 1..Len(ids) :
                              \/ docs[ids[i]].start < docs[ids[j]].start
                              \/ docs[ids[i]].start = docs[ids[j]].start /\ i <= j
         IN <<ids[first]>> \o ByStart(SeqWithout(ids, ids[first]), docs)

\* eventService.ts:67-79  getActiveEvents, up to the query
StartGetActiveEvents(r) ==
    \E c \in Callers :
        /\ req[r].pc = "idle"
        /\ LET cachedResult == CacheGet(cache, "events:active", now)
               q == [Blank EXCEPT !.op = "getActiveEvents", !.caller = c] IN
           /\ cache' = CacheAfterGet(cache, "events:active", now)
           /\ Step(r, IF Truthy(cachedResult) THEN Finish(q, "ok", cachedResult)
                      ELSE Await(q, "gae_query",
                                 [kind |-> "query", coll |-> "events", status |-> "approved"]))

\* eventService.ts:77-97  the filter on the end time and the cache entry of 5 minutes
ContGetActiveEvents(r) ==
    /\ req[r].pc = "resp" /\ req[r].at = "gae_query"
    /\ IF ~req[r].resp.ok
       THEN /\ cache' = cache
            /\ Step(r, Finish(req[r], "StoreUnavailable", NullData))
       ELSE LET snap == req[r].resp.snap
                events_ == ByStart(InIdOrder(req[r].resp.docs, 1), snap)
                activeEvents == [kind |-> "list",
                                 ids |-> SelectSeq(events_, LAMBDA e : snap[e].end >= now)] IN
            /\ cache' = CacheSet(cache, "events:active", activeEvents, 5, now)
            /\ Step(r, Finish(req[r], "ok", activeEvents))

\* approved events that end at half a minute and at two minutes, and a pending one
ActiveDocs ==
    {[NoEvent EXCEPT !.state = "live", !.status = "approved", !.createdBy = "u1",
                     !.artists = <<"a1">>, !.start = st, !.end = en] :
         st \in {0, 1000}, en \in {MinuteMs \div 2, 2 * MinuteMs}}
      \cup {[NoEvent EXCEPT !.state = "live", !.status = "pending", !.createdBy = "u1",
                            !.artists = <<"a1">>, !.end = 2 * MinuteMs]}

InitActive ==
    /\ now = 0
    /\ cache = [k \in {} |-> NullData]
    /\ out = NoOut
    /\ lastSet = [k \in CacheKeys |-> NoSet]
    /\ events \in [EventIds -> ActiveDocs]
    /\ artists = [a \in ArtistIds |-> NoArtist]
    /\ favorites = <<>>
    /\ req = [r \in Reqs |-> Blank]
    /\ wrap = NoWrap

NextActive ==
    \/ Tick
    \/ \E r \in Reqs :
        \/ StoreOk(r) \/ StoreFail(r) \/ Return(r)
        \/ StartGetActiveEvents(r) \/ ContGetActiveEvents(r)

SpecActive == InitActive /\ [][NextActive]_vars

\* C26 as claimed: the list a getActiveEvents call returns holds exactly the stored events
\* that are approved and end at or after the time of the return, each once, in ascending
\* order of start
C26_ActiveEventsExact ==
    [][\A r \in Reqs :
          (Finishes(r) /\ req'[r].op = "getActiveEvents" /\ req'[r].result = "ok") =>
              LET ids == req'[r].value.ids IN
              /\ Range(ids) = {e \in EventIds : /\ events[e].state = "live"
                                                /\ events[e].status = "approved"
                                                /\ events[e].end >= now}
              /\ \A i, j \in 1..Len(ids) :
                     i < j => ids[i] # ids[j] /\ events[ids[i]].start <= events[ids[j]].start]_vars

(***************************************************************************)
(* What a creation stores                                                  *)
(***************************************************************************)

\* C27: a record appears in a collection only by createEvent or createArtist, with status
\* pending and the caller as createdBy; no step of a createEvent changes a performer
C27_CreatedPendingByCaller ==
    [][\A r \in Reqs :
          /\ \A c \in {"events", "artists"} : \A id \in DOMAIN Coll(c) :
                 (Coll(c)[id].state # "live" /\ Coll(c)'[id].state = "live") =>
                     /\ req[r].op = IF c = "events" THEN "createEvent" ELSE "createArtist"
                     /\ Coll(c)'[id].status = "pending"
                     /\ Coll(c)'[id].createdBy = req[r].caller.uid
                     /\ Coll(c)'[id].rejectedReason = "none"
          /\ (req[r].op = "createEvent" /\ req'[r] # req[r]) => artists' = artists]_vars

\* a user's createEvent has returned: the event is pending, the user's, and the approved
\* performer it lists does not have it in activeEventIds
C27_Witness ==
    \E r \in Reqs :
        /\ req[r].pc = "done" /\ req[r].op = "createEvent" /\ req[r].result = "ok"
        /\ req[r].caller.role = "user"
        /\ events[req[r].eid].state = "live"
        /\ events[req[r].eid].status = "pending"
        /\ events[req[r].eid].createdBy = req[r].caller.uid
        /\ \E a \in ArtistIds : /\ SeqHas(events[req[r].eid].artists, a)
                                /\ artists[a].status = "approved"
                                /\ ~SeqHas(artists[a].activeEventIds, req[r].eid)


(***************************************************************************)
(* Reviews of an id that holds no record                                   *)
(***************************************************************************)
ReviewOps == {"updateEventStatus", "updateArtistStatus"}

\* the record a review call names
ReviewTarget(q) ==
    IF q.op = "updateEventStatus" THEN events[q.eid] ELSE artists[q.aid]

\* a step of a review call whose id holds no record
MissingReviewStep(r) ==
    /\ req[r].op \in ReviewOps
    /\ req'[r] # req[r]
    /\ ReviewTarget(req[r]).state # "live"

\* C28: a review (updateEventStatus, updateArtistStatus) of an id that holds no record
\* ends with the not-found error (a store read that fails may end it with the store's
\* error instead), and no step of it changes a record, an activeEventIds list or the cache.
C28_ReviewOfMissingNotFound ==
    [][\A r \in Reqs :
          MissingReviewStep(r) =>
              /\ events' = events /\ artists' = artists /\ cache' = cache
              /\ req'[r].pc = "done" =>
                    \/ req'[r].result = "NotFound"
                    \/ req'[r].result = "StoreUnavailable" /\ req[r].call.kind = "get"]_vars

\* what does hold: such a review never succeeds and changes nothing
ReviewOfMissingFails ==
    [][\A r \in Reqs :
          MissingReviewStep(r) =>
              /\ events' = events /\ artists' = artists /\ cache' = cache
              /\ req'[r].pc = "done" => req'[r].result # "ok"]_vars

\* an event review of a missing id has ended with the not-found error
MissingEventReviewed ==
    \E r \in Reqs : /\ req[r].pc = "done" /\ req[r].op = "updateEventStatus"
                    /\ events[req[r].eid].state # "live" /\ req[r].result = "NotFound"


(***************************************************************************)
(* Favorites of deleted events (src/unnamed/part_009, eventService.ts)     *)
(***************************************************************************)
MaxFavoritePage == 2       \* the largest page of favorites a client asks for

NoReply == [op |-> "none", code |-> 0, cached |-> FALSE, answer |-> NullData]

\* part_009:271-415 and the controller  UserService.getFavorites, one call
GetFavoritesPage(r) ==
    \E page \in 1..MaxFavoritePage, storeOk \in BOOLEAN :
        LET u == req[r].caller.uid
            f == FavoriteFilters(req[r].query, page)
            key == FavoritesKey(u, req[r].query, page)
            cachedResult == CacheGet(cache, key, now)
            result == FavoritesResponse(favorites, events, u, f, now)
        IN /\ IF cachedResult # NullData
              THEN /\ out' = [op |-> "getFavorites", code |-> 200, cached |-> TRUE,
                              answer |-> cachedResult]
                   /\ cache' = CacheAfterGet(cache, key, now)
              ELSE IF ~storeOk
              THEN /\ out' = [op |-> "getFavorites", code |-> 500, cached |-> FALSE,
                              answer |-> NullData]
                   /\ cache' = CacheAfterGet(cache, key, now)
              ELSE /\ out' = [op |-> "getFavorites", code |-> 200, cached |-> FALSE,
                              answer |-> result]
                   /\ cache' = CacheSet(CacheAfterGet(cache, key, now), key, result, 1440, now)
           /\ UNCHANGED <<now, lastSet, favorites, events, artists, req, wrap>>

\* eventService.ts:763-804 and part_001:188-200  EventService.deleteEvent by an admin; the
\* performers' activeEventIds are empty, so that removeEventFromArtists leaves them as
\* they are
DeleteFavoredEvent(r) ==
    \E e \in ListIds, storeOk \in BOOLEAN :
        /\ events[e].state = "live"
        /\ IF storeOk
           THEN /\ events' = [events EXCEPT ![e] = [NoDoc EXCEPT !.state = "deleted"]]
                /\ cache' = EventDeleteInvalidate(cache, e,
                                [i \in 1..Len(events[e].artists) |-> events[e].artists[i].id])
                /\ out' = [NoReply EXCEPT !.op = "deleteEvent", !.code = 200]
           ELSE /\ UNCHANGED <<events, cache>>
                /\ out' = [NoReply EXCEPT !.op = "deleteEvent", !.code = 500]
        /\ UNCHANGED <<now, lastSet, favorites, artists, req, wrap>>

InitDropped ==
    /\ now \in {0, MinuteMs}
    /\ cache = [k \in {} |-> NullData]
    /\ out = NoReply
    /\ lastSet = [k \in {} |-> NoSet]
    /\ events \in [ListIds -> ListDocs \cup {NoDoc}]
    /\ artists = [a \in ArtistIds |-> [NoArtist EXCEPT !.state = "live", !.status = "approved"]]
    /\ favorites = FavoriteRows
    /\ req \in [Reqs -> [op : {"getFavorites"}, caller : {[uid |-> "u1", role |-> "user"]},
                         query : FavoriteQueries]]
    /\ wrap = NoWrap

NextDropped == \E r \in Reqs : GetFavoritesPage(r) \/ DeleteFavoredEvent(r)

SpecDropped == InitDropped /\ [][NextDropped]_vars

\* the rows of the user whose event is in the store
LiveRows(u) ==
    SelectSeq(RowsOf(favorites, u), LAMBDA i : events[favorites[i].eventId].state = "live")

\* the answer holds only favorites whose event is in the store and counts no other
OnlyLiveFavorites(answer, u) ==
    /\ \A i \in 1..Len(answer.events) :
           events[favorites[answer.events[i].id].eventId].state = "live"
    /\ answer.total <= Len(LiveRows(u))

\* C29: a getFavorites call that answers returns no favorite whose event is not in the
\* store at the time of the call, and counts none in pagination.total, also when the
\* event was deleted after an earlier call with the same filters.
C29_DeletedEventsDropped ==
    [][\A r \in Reqs :
          (out'.op = "getFavorites" /\ out'.code = 200 /\ events' = events)
              => OnlyLiveFavorites(out'.answer, req[r].caller.uid)]_vars

\* what does hold: an answer computed from the store drops them
FreshFavoritesDropDeleted ==
    [][\A r \in Reqs :
          (out'.op = "getFavorites" /\ out'.code = 200 /\ ~out'.cached /\ events' = events)
              => OnlyLiveFavorites(out'.answer, req[r].caller.uid)]_vars

\* a call has read the store after the deletion of a favorite's event and has answered
DroppedAfterDelete ==
    /\ out.op = "getFavorites" /\ out.code = 200 /\ ~out.cached
    /\ \E i \in 1..Len(favorites) :
           favorites[i].userId = "u1" /\ events[favorites[i].eventId].state = "deleted"
    /\ out.answer.total > 0


(***************************************************************************)
(* What a resubmission writes                                              *)
(***************************************************************************)
InitResubmit ==
    /\ now \in {0, MinuteMs}
    /\ cache = FilledCache
    /\ out = NoOut
    /\ lastSet = [k \in CacheKeys |-> NoSet]
    /\ \E st \in {"pending", "approved", "rejected"}, o \in Owners :
           events = [e \in EventIds |-> IF e = EventOrder[1] THEN EditEvent(st, o)
                                        ELSE [NoEvent EXCEPT !.state = "void"]]
    /\ \E st \in {"pending", "approved", "rejected"}, o \in Owners :
           artists = [a \in ArtistIds |-> IF a = ArtistOrder[1] THEN EditArtist(st, o)
                                          ELSE [NoArtist EXCEPT !.state = "void"]]
    /\ favorites = <<>>
    /\ req = [r \in Reqs |-> Blank]
    /\ wrap = NoWrap

NextResubmit ==
    \E r \in Reqs :
        \/ StoreOk(r) \/ StoreFail(r) \/ StoreLost(r) \/ Return(r)
        \/ StartResubmitArtist(r) \/ ContResubmitArtistGet(r) \/ ContResubmitArtistUpdate(r)
        \/ StartResubmitEvent(r) \/ ContResubmitEventGet(r) \/ ContResubmitEventUpdate(r)
        \/ ContXrefGet(r) \/ ContXrefCommit(r) \/ ContResubmitEventReget(r)

SpecResubmit == InitResubmit /\ [][NextResubmit]_vars

\* the record a resubmission names
Resubmitted(q) == IF q.op = "resubmitEvent" THEN events[q.eid] ELSE artists[q.aid]

\* after is before with the three fields of a resubmission written at time t
ResubmitOf(before, after, t) ==
    /\ after.status = "pending"
    /\ after.rejectedReason = "none"
    /\ after.updatedAt = t
    /\ \A f \in DOMAIN before \ {"status", "rejectedReason", "updatedAt"} :
           after[f] = before[f]

\* C30: when a resubmit (resubmitEvent, resubmitArtist) returns normally, the record is the
\* record it read with status pending, rejectedReason cleared and updatedAt the time of the
\* call, every other field as it was; and a step of a resubmit changes its record in no
\* other way.
C30_ResubmitWritesThreeFields ==
    [][\A r \in Reqs :
          (req[r].op \in {"resubmitEvent", "resubmitArtist"} /\ req'[r] # req[r]) =>
              LET before == Resubmitted(req[r])
                  after == IF req[r].op = "resubmitEvent" THEN events'[req[r].eid]
                           ELSE artists'[req[r].aid]
              IN /\ after # before => ResubmitOf(before, after, now)
                 /\ (Finishes(r) /\ req'[r].result = "ok") =>
                        /\ DOMAIN after = DOMAIN req[r].seen
                        /\ ResubmitOf(req[r].seen, after, now)]_vars

\* a resubmission of a rejected event has returned normally, one minute after the record
\* was last written
C30_Witness ==
    \E r \in Reqs :
        /\ req[r].pc = "done" /\ req[r].op = "resubmitEvent" /\ req[r].result = "ok"
        /\ req[r].seen.status = "rejected" /\ req[r].seen.rejectedReason = "r1"
        /\ events[req[r].eid].updatedAt = MinuteMs
        /\ events[req[r].eid].createdAt = 0
        /\ events[req[r].eid].artists = <<"a1">>


(***************************************************************************)
(* The maintainer over an event of two performers                          *)
(***************************************************************************)
\* a stored performer with a list, or a deleted one
XrefPerformers ==
    {[NoArtist EXCEPT !.state = "live", !.status = "approved", !.createdBy = "u1",
                      !.activeEventIds = l] : l \in {<<>>, <<"e1">>}} \cup {Gone("artists")}

\* the event of a1 and a2
XrefEvent(status) ==
    [NoEvent EXCEPT !.state = "live", !.status = status, !.createdBy = "u1",
                    !.artists = <<"a1", "a2">>, !.end = MinuteMs \div 2]

InitXref ==
    /\ now = 0
    /\ cache = FilledCache
    /\ out = NoOut
    /\ lastSet = [k \in CacheKeys |-> NoSet]
    /\ \E st \in {"pending", "approved", "rejected"} :
           events = [e \in EventIds |-> IF e = EventOrder[1] THEN XrefEvent(st)
                                        ELSE [NoEvent EXCEPT !.state = "void"]]
    /\ artists \in [ArtistIds -> XrefPerformers]
    /\ favorites = <<>>
    /\ req = [r \in Reqs |-> Blank]
    /\ wrap = NoWrap

NextXref ==
    \E r \in Reqs :
        \/ StoreOk(r) \/ StoreFail(r) \/ StoreLost(r) \/ Return(r)
        \/ StartUpdateEventStatus(r) \/ ContUpdateEventStatusGet(r)
        \/ ContUpdateEventStatusUpdate(r) \/ ContXrefGet(r) \/ ContXrefCommit(r)
        \/ ContUpdateEventStatusReget(r)
        \/ StartResubmitEvent(r) \/ ContResubmitEventGet(r) \/ ContResubmitEventUpdate(r)
        \/ ContResubmitEventReget(r)
        \/ StartDeleteEvent(r) \/ ContDeleteEventGet(r) \/ ContRemoveGet(r)
        \/ ContRemoveCommit(r) \/ ContDeleteEventDelete(r)

SpecXref == InitXref /\ [][NextXref]_vars

\* performer a's list is what the maintainer called with status leaves for event e
Maintained(a, e, status) ==
    artists[a].state = "live" =>
        (SeqHas(artists[a].activeEventIds, e) <=> status = "approved")

\* the maintainer of request r ends in this step because the read of one performer failed
XrefReadFailed(r) ==
    /\ req[r].pc = "resp" /\ req[r].at = "xref_get" /\ ~req[r].resp.ok
    /\ req'[r] # req[r]

\* C31: when the maintainer's read of one performer of an event fails, the other performers
\* the event lists still have their activeEventIds updated for the event.
C31_FailurePerPerformer ==
    [][\A r \in Reqs :
          XrefReadFailed(r) =>
              \A j \in 1..Len(req[r].ids) :
                  j # req[r].idx => Maintained(req[r].ids[j], req[r].eid, XrefStatus(req[r]))']_vars

\* what does hold: a listed performer without a record does not keep the maintainer from
\* updating the others
MissingPerformerSkipped ==
    [][\A r \in Reqs :
          (req[r].pc = "resp" /\ req[r].at = "xref_commit" /\ req[r].resp.ok
           /\ req'[r] # req[r]) =>
              \A j \in 1..Len(req[r].ids) :
                  Maintained(req[r].ids[j], req[r].eid, XrefStatus(req[r]))']_vars

\* the maintainer has committed for an event of which one performer has no record
SkippedOne ==
    \E r \in Reqs :
        /\ req[r].pc = "resp" /\ req[r].at = "xref_commit" /\ req[r].resp.ok
        /\ req[r].target = "approved"
        /\ artists["a1"].state = "deleted" /\ artists["a2"].activeEventIds = <<"e1">>


\* the write of call q on its own event is in the store
OwnWriteApplied(q) ==
    CASE q.op = "updateEventStatus" -> events[q.eid].status = q.target
      [] q.op = "resubmitEvent" -> events[q.eid].status = "pending"
      [] q.op = "deleteEvent" -> events[q.eid].state = "deleted"
      [] OTHER -> FALSE

\* the workflows the order is stated for
OrderedOps(ops) ==
    \A r \in Reqs :
        req[r].op \in ops =>
            /\ artists' # artists => OwnWriteApplied(req[r])
            /\ cache' # cache => OwnWriteApplied(req[r])

\* C32: in a review, a resubmission and a deletion of an event, a performer's activeEventIds
\* changes, and a cache entry is cleared, only when the call's write on the event itself
\* (the status, or the deletion) is in the store.
C32_EventWriteFirst == [][OrderedOps(EventOps)]_vars

\* what does hold: the order of the review and of the resubmission
ReviewWritesFirst == [][OrderedOps({"updateEventStatus", "resubmitEvent"})]_vars

\* a review's maintainer has changed a performer after the status was written
ReviewMaintained ==
    \E r \in Reqs : /\ req[r].op = "updateEventStatus" /\ req[r].at = "xref_commit"
                    /\ req[r].pc = "resp" /\ req[r].resp.ok /\ req[r].target = "approved"
                    /\ events[req[r].eid].status = "approved"
                    /\ \E a \in ArtistIds : artists[a].activeEventIds = <<"e1">>


(***************************************************************************)
(* getMapData while the clock moves (eventService.ts:262-415)              *)
(***************************************************************************)
MaxMapMinutes == 2         \* the clock of the map stops after this many minutes

\* events that end, and that start, while the clock moves, and one that is not public
TimedMapDocs ==
    {MapDoc("approved", 0, 30, At(1, 1)),
     MapDoc("approved", 90, 240, At(1, 1)),
     MapDoc("pending", 0, 240, At(1, 1))}

InitMapClock ==
    /\ now = 0
    /\ cache = [k \in {} |-> NullData]
    /\ out = NoAnswers
    /\ lastSet = [k \in {} |-> NoSet]
    /\ events \in [ListIds -> TimedMapDocs]
    /\ artists = [a \in ArtistIds |-> NoArtist]
    /\ favorites = <<>>
    /\ req \in [Reqs -> [op : {"getMapData"}, caller : {NoCaller}, query : MapQueries]]
    /\ wrap = NoWrap

TickMap ==
    /\ now + MinuteMs <= MaxMapMinutes * MinuteMs
    /\ now' = now + MinuteMs
    /\ UNCHANGED <<cache, out, lastSet, events, artists, favorites, req, wrap>>

NextMapClock == TickMap \/ \E r \in Reqs : GetMapData(r)

SpecMapClock == InitMapClock /\ [][NextMapClock]_vars

\* every event of the answer is public and passes the time filter of the query at time t
MapAnswerTimely(answer, q, t) ==
    \A i \in 1..Len(answer.events) :
        LET d == events[answer.events[i]] IN
        /\ d.state = "live" /\ d.status = "approved"
        /\ TimestampToMillis(d.end) >= t
        /\ MapStatus(q) = "active" => TimestampToMillis(d.start) <= t
        /\ MapStatus(q) = "upcoming" => TimestampToMillis(d.start) > t

\* C33: every event an answer of getMapData holds is approved and has end >= now at the time
\* of the call, with start <= now for status active and start > now for status upcoming,
\* also when the answer is served from the cache.
C33_MapAnswersTimely ==
    [][\A r \in Reqs :
          (now' = now /\ out'.code = 200) =>
              MapAnswerTimely(out'.got[1], req[r].query, now)]_vars

\* what does hold: the answers computed from the store
FreshMapAnswersTimely ==
    [][\A r \in Reqs :
          (now' = now /\ out'.code = 200 /\ ~out'.cached) =>
              MapAnswerTimely(out'.got[1], req[r].query, now)]_vars

\* an answer computed from the store a minute into the run holds an event
FreshMapAnswered ==
    /\ now = MinuteMs /\ out.code = 200 /\ ~out.cached
    /\ Len(out.got) = 1 /\ Len(out.got[1].events) > 0


(***************************************************************************)
(* The lifetimes of cached lists (eventService.ts, artistService.ts)       *)
(***************************************************************************)
ListStatuses == {"approved", "pending", "rejected"}

\* eventService.ts:118-121  getEventsByStatus: ttl
EventsByStatusTtl(status) ==
    IF status = "pending" THEN 1 ELSE IF status = "rejected" THEN 10 ELSE 5

\* artistService.ts:76-78  getArtistsByStatus: ttl, 0 when the list is not cached
ArtistsByStatusTtl(status) ==
    IF status = "" \/ status = "pending" THEN 0
    ELSE IF status = "approved" THEN 30 ELSE 15

\* eventService.ts:256  getEventsWithFilters: cache.set(cacheKey, result, 3)
EventsFiltersTtl(status) == 3

\* artistService.ts:475 and 502  getArtistsWithFilters and the base cache of approved
ArtistsFiltersTtl(status) == IF status = "approved" THEN 30 ELSE 15

\* the lifetime a family gives to a list of the status
FamilyTtl(family, status) ==
    CASE family = "getEventsByStatus" -> EventsByStatusTtl(status)
      [] family = "getArtistsByStatus" -> ArtistsByStatusTtl(status)
      [] family = "getEventsWithFilters" -> EventsFiltersTtl(status)
      [] family = "getArtistsWithFilters" -> ArtistsFiltersTtl(status)

IdList(ids) == [kind |-> "list", ids |-> ids]

NoList == [family |-> "none", status |-> "none", code |-> 0, cached |-> FALSE,
           answer |-> NullData]

\* what the caller of a list query gets
Listed(family, status, code, cached, answer) ==
    [family |-> family, status |-> status, code |-> code, cached |-> cached,
     answer |-> answer]

\* one cached list query: the lookup under key, the read computing fresh, the set with ttl
\* minutes (none when ttl is 0)
CachedList(family, status, key, fresh, ttl, storeOk) ==
    LET cachedResult == IF ttl = 0 THEN NullData ELSE CacheGet(cache, key, now)
        after == IF ttl = 0 THEN cache ELSE CacheAfterGet(cache, key, now)
    IN IF cachedResult # NullData
       THEN /\ out' = Listed(family, status, 200, TRUE, cachedResult)
            /\ cache' = after
       ELSE IF ~storeOk
       THEN /\ out' = Listed(family, status, 500, FALSE, NullData)
            /\ cache' = after
       ELSE /\ out' = Listed(family, status, 200, FALSE, fresh)
            /\ cache' = IF ttl = 0 THEN after ELSE CacheSet(after, key, fresh, ttl, now)

\* eventService.ts:114-163  getEventsByStatus
GetEventsByStatus(r) ==
    \E status \in ListStatuses, storeOk \in BOOLEAN :
        LET ids == SelectSeq(ListOrder, LAMBDA id :
                       /\ events[id].state = "live" /\ events[id].status = status
                       /\ status = "approved" => TimestampToMillis(events[id].end) >= now)
        IN /\ CachedList("getEventsByStatus", status, "events:status:" \o status,
                         IdList(SortEvents(ids, events, "", "")),
                         EventsByStatusTtl(status), storeOk)
           /\ UNCHANGED <<now, lastSet, favorites, events, artists, req, wrap>>

\* artistService.ts:66-122  getArtistsByStatus; the performers share a stageName and a
\* createdAt, so that both sorts keep the order of the documents
GetArtistsByStatus(r) ==
    \E status \in ListStatuses, storeOk \in BOOLEAN :
        LET ids == SelectSeq(ArtistOrder, LAMBDA id :
                       artists[id].state = "live" /\ artists[id].status = status)
        IN /\ CachedList("getArtistsByStatus", status, "artists:status:" \o status \o ":all",
                         IdList(ids), ArtistsByStatusTtl(status), storeOk)
           /\ UNCHANGED <<now, lastSet, favorites, events, artists, req, wrap>>

\* eventService.ts:166-259  getEventsWithFilters with a status filter
GetEventsWithFilters(r) ==
    \E status \in ListStatuses, storeOk \in BOOLEAN :
        LET f == [search |-> "", artistId |-> "", status |-> status, createdBy |-> "",
                  page |-> 1, limit |-> 0, sortBy |-> "", sortOrder |-> ""]
        IN /\ CachedList("getEventsWithFilters", status, FiltersKey(f),
                         EventsResponse(events, f), EventsFiltersTtl(status), storeOk)
           /\ UNCHANGED <<now, lastSet, favorites, events, artists, req, wrap>>

\* artistService.ts:428-516  getArtistsWithFilters with a status filter: approved goes
\* through the base list 'artists:approved', which is the entry it caches
GetArtistsWithFilters(r) ==
    \E status \in ListStatuses, storeOk \in BOOLEAN :
        LET ids == SelectSeq(ArtistOrder, LAMBDA id :
                       artists[id].state = "live" /\ artists[id].status = status)
            key == IF status = "approved" THEN "artists:approved"
                   ELSE "artists:filters:{" \o status \o "}"
        IN /\ CachedList("getArtistsWithFilters", status, key, IdList(ids),
                         ArtistsFiltersTtl(status), storeOk)
           /\ UNCHANGED <<now, lastSet, favorites, events, artists, req, wrap>>

InitTtl ==
    /\ now = 0
    /\ cache = [k \in {} |-> NullData]
    /\ out = NoList
    /\ lastSet = [k \in {} |-> NoSet]
    /\ \E d \in ListDocs :
           events = [e \in ListIds |-> IF e = ListOrder[1] THEN d ELSE NoDoc]
    /\ artists = [a \in ArtistIds |->
                      EditArtist(IF a = "a1" THEN "rejected" ELSE "approved", "u1")]
    /\ favorites = <<>>
    /\ req = [r \in Reqs |-> Blank]
    /\ wrap = NoWrap

NextTtl ==
    \E r \in Reqs :
        \/ GetEventsByStatus(r) \/ GetArtistsByStatus(r)
        \/ GetEventsWithFilters(r) \/ GetArtistsWithFilters(r)

SpecTtl == InitTtl /\ [][NextTtl]_vars

\* the keys this step has set
SetNow == {k \in DOMAIN cache' : k \notin DOMAIN cache \/ cache'[k] # cache[k]}

\* C34: in each family of cached list queries, a list of pending or rejected records is
\* not cached, or is cached for strictly less time than the family caches a list of
\* approved records.
C34_ShorterTtlForReview ==
    [][out'.status \in {"pending", "rejected"} =>
          \A k \in SetNow :
              cache'[k].expires - now < FamilyTtl(out'.family, "approved") * MinuteMs]_vars

\* what does hold: the two families of performer lists
ArtistListsShorterTtl ==
    [][(/\ out'.status \in {"pending", "rejected"}
        /\ out'.family \in {"getArtistsByStatus", "getArtistsWithFilters"}) =>
          \A k \in SetNow :
              cache'[k].expires - now < FamilyTtl(out'.family, "approved") * MinuteMs]_vars

\* a list of rejected performers is in the cache
RejectedArtistsCached == "artists:status:rejected:all" \in DOMAIN cache


(***************************************************************************)
(* page and limit (eventService.ts:175-178, part_009:274-277)              *)
(***************************************************************************)
\* what parseInt hands over for the page and limit parameters; 0 also stands for a
\* parameter that is not supplied, since both take the default through `||`
PageInputs == {-1, 0, 1, 2}
LimitInputs == {-1, 0, 1, 2, 100, 101}

NoPaged == [op |-> "none", page |-> 0, limit |-> 0, answer |-> NullData]

InitPaging ==
    /\ now = 0
    /\ cache = [k \in {} |-> NullData]
    /\ out = NoPaged
    /\ lastSet = [k \in {} |-> NoSet]
    /\ events \in [ListIds -> {d \in ListDocs : d.status = "approved"} \cup {NoDoc}]
    /\ artists = [a \in ArtistIds |-> NoArtist]
    /\ favorites = FavoriteRows
    /\ req \in [Reqs -> [op : {"getActiveEvents", "getFavorites"},
                         caller : {[uid |-> "u1", role |-> "user"]},
                         page : PageInputs, limit : LimitInputs]]
    /\ wrap = NoWrap

\* part_001:16-39 and eventService.ts:175-253  the answer of GET /events to page and limit
PagedEvents(r) ==
    LET q == [search |-> "", artistId |-> "", status |-> "all", createdBy |-> "",
              limit |-> req[r].limit, sortBy |-> "", sortOrder |-> ""]
    IN /\ req[r].op = "getActiveEvents"
       /\ out' = [op |-> req[r].op, page |-> req[r].page, limit |-> req[r].limit,
                  answer |-> EventsResponse(events, FiltersOf(q, req[r].page))]
       /\ UNCHANGED <<now, cache, lastSet, favorites, events, artists, req, wrap>>

\* userController.ts:142-154 and part_009:274-409  the answer of GET /users/favorites
PagedFavorites(r) ==
    LET q == [limit |-> req[r].limit, status |-> "all", sort |-> "", sortOrder |-> ""]
    IN /\ req[r].op = "getFavorites"
       /\ out' = [op |-> req[r].op, page |-> req[r].page, limit |-> req[r].limit,
                  answer |-> FavoritesResponse(favorites, events, req[r].caller.uid,
                                               FavoriteFilters(q, req[r].page), now)]
       /\ UNCHANGED <<now, cache, lastSet, favorites, events, artists, req, wrap>>

NextPaging == \E r \in Reqs : PagedEvents(r) \/ PagedFavorites(r)

SpecPaging == InitPaging /\ [][NextPaging]_vars

\* the answer keeps the limits of the specification
WithinLimits(o) ==
    /\ o.answer.page >= 1
    /\ o.page = 0 => o.answer.page = 1
    /\ o.answer.limit >= 1 /\ o.answer.limit <= LimitCap
    /\ (o.limit = 0 /\ o.op = "getActiveEvents") => o.answer.limit = DefaultLimit
    /\ Len(o.answer.events) <= o.answer.limit
    /\ Len(o.answer.events) <= LimitCap

\* C35: for every integer page and limit handed to getEventsWithFilters and getFavorites,
\* or left out, the effective page is at least 1 (1 by default), the effective limit is
\* between 1 and 100 (50 by default for events), and the answer holds no more than limit
\* items and no more than 100.
C35_PageAndLimitBounded == out.op # "none" => WithinLimits(out)

\* what does hold: the answers to a page and a limit that are not negative
PositivePagingBounded == (out.op # "none" /\ out.page >= 0 /\ out.limit >= 0) => WithinLimits(out)

\* a limit above the cap was asked for and the answer holds an item
CappedAnswer ==
    out.op = "getActiveEvents" /\ out.limit = 101 /\ out.answer.limit = LimitCap
        /\ Len(out.answer.events) > 0


(***************************************************************************)
(* Two event workflows at a time over one performer                        *)
(***************************************************************************)
\* an event of performer a1, submitted by u1
RaceEvent(status) ==
    [NoEvent EXCEPT !.state = "live", !.status = status, !.createdBy = "u1",
                    !.artists = <<"a1">>, !.end = MinuteMs \div 2]

InitRace ==
    /\ now = 0
    /\ cache = [k \in {} |-> NullData]
    /\ out = NoOut
    /\ lastSet = [k \in CacheKeys |-> NoSet]
    /\ \E st \in {"pending", "rejected", "approved"} :
           /\ events = [e \in EventIds |-> RaceEvent(IF e = "e1" THEN st ELSE "pending")]
           /\ artists = [a \in ArtistIds |->
                            IF a = "a1"
                            THEN [NoArtist EXCEPT !.state = "live", !.status = "approved",
                                      !.createdBy = "u1",
                                      !.activeEventIds = IF st = "approved" THEN <<"e1">>
                                                         ELSE <<>>]
                            ELSE [NoArtist EXCEPT !.state = "void"]]
    /\ favorites = <<>>
    /\ req = [r \in RefReqs |-> Blank]
    /\ wrap = NoWrap

\* two calls, each served once: what is looked at is the order of the steps of the two
NextRace ==
    \E r \in RefReqs :
        \/ StoreOk(r) \/ StoreFail(r) \/ StoreLost(r)
        \/ StartUpdateEventStatus(r) \/ ContUpdateEventStatusGet(r)
        \/ ContUpdateEventStatusUpdate(r) \/ ContXrefGet(r) \/ ContXrefCommit(r)
        \/ ContUpdateEventStatusReget(r)
        \/ StartResubmitEvent(r) \/ ContResubmitEventGet(r) \/ ContResubmitEventUpdate(r)
        \/ ContResubmitEventReget(r)
        \/ StartDeleteEvent(r) \/ ContDeleteEventGet(r) \/ ContRemoveGet(r)
        \/ ContRemoveCommit(r) \/ ContDeleteEventDelete(r)

SpecRace == InitRace /\ [][NextRace]_vars

\* request r is an approval that has returned normally and whose maintainer did not fail
ApprovalReturned(r) ==
    /\ req[r].pc = "done" /\ req[r].op = "updateEventStatus" /\ req[r].target = "approved"
    /\ req[r].result = "ok" /\ ~req[r].xrefFailed

\* C36: when two approvals of different events that list the same performer, running at
\* the same time, have both returned without a store failure, the performer's
\* activeEventIds holds the ids of both events.
C36_NoLostXrefUpdate ==
    \A r1, r2 \in RefReqs :
        (/\ ApprovalReturned(r1) /\ ApprovalReturned(r2)
         /\ req[r1].eid # req[r2].eid
         /\ events[req[r1].eid].status = "approved"
         /\ events[req[r2].eid].status = "approved") =>
            \A i \in 1..Len(req[r1].seen.artists) :
                LET a == req[r1].seen.artists[i] IN
                SeqHas(events[req[r2].eid].artists, a) =>
                    /\ SeqHas(artists[a].activeEventIds, req[r1].eid)
                    /\ SeqHas(artists[a].activeEventIds, req[r2].eid)


\* the status written by this step of a resubmission replaces one that is not rejected
OverwritesReview(r) ==
    /\ req[r].op = "resubmitEvent" /\ req[r].pc = "call" /\ req[r].call.kind = "update"
    /\ events'[req[r].eid] # events[req[r].eid]
    /\ events[req[r].eid].status # "rejected"

\* C39: the status write of a resubmitEvent never replaces a status that is not rejected at
\* the time of the write, also when an administrator's approval of the same event runs
\* between the resubmission's check and its write.
C39_ResubmitOnlyRejected ==
    [][\A r \in RefReqs : ~OverwritesReview(r)]_vars

\* what does hold: the status the resubmission's own read saw was rejected
ResubmitSawRejected ==
    [][\A r \in RefReqs :
          (/\ req[r].op = "resubmitEvent" /\ req[r].pc = "call" /\ req[r].call.kind = "update"
           /\ events'[req[r].eid] # events[req[r].eid]) =>
              req[r].seen.status = "rejected" /\ req[r].seen.createdBy = req[r].caller.uid]_vars

\* a resubmission has written pending over the rejected status it read
ResubmitWrote ==
    \E r \in RefReqs : /\ req[r].op = "resubmitEvent" /\ req[r].at = "rse_update"
                       /\ req[r].pc = "resp" /\ req[r].resp.ok
                       /\ events[req[r].eid].status = "pending"


\* no id occurs twice in the list
NoRepeat(seq) == \A i, j \in 1..Len(seq) : seq[i] = seq[j] => i = j

\* C40: in every state, no performer's activeEventIds holds an event id more than once,
\* whichever approvals (also of an approved event), rejections, resubmissions and deletions
\* have run and however their steps were ordered.
C40_NoDuplicateIds == \A a \in ArtistIds : NoRepeat(artists[a].activeEventIds)

\* two approvals of the approved event e1 have returned, and a1 lists it
C40_Witness ==
    /\ \A r \in RefReqs : ApprovalReturned(r) /\ req[r].eid = "e1"
                          /\ req[r].seen.status = "approved"
    /\ SeqHas(artists["a1"].activeEventIds, "e1")


(***************************************************************************)
(* Writes behind withTimeoutAndRetry (src/src/utils/firestoreTimeout.ts)   *)
(***************************************************************************)
\* this step of call r adds a row
AddsRow(r) ==
    /\ req[r].op = "addFavorite" /\ req[r].pc = "af_add"
    /\ Len(favorites') = Len(favorites) + 1

\* C38: one addFavorite call adds at most one row, also when an attempt of the add times
\* out, is applied by the store all the same, and the wrapper tries again. With one call
\* served at a time the pair had no row when the call's check passed, so any row of the pair
\* at the time of an add is one this call added.
C38_WriteAtMostOnce ==
    [][\A r \in Reqs :
          AddsRow(r) => RowsFor(favorites, req[r].userId, req[r].eventId) = {}]_vars

\* what does hold: the first attempt of a call adds the only row of the pair
FirstAttemptAddsOne ==
    [][\A r \in Reqs :
          (AddsRow(r) /\ req[r].attempt = 1) =>
              RowsFor(favorites, req[r].userId, req[r].eventId) = {}]_vars

\* an add was answered in time at the first attempt
AddedAtOnce ==
    \E r \in Reqs : /\ req[r].op = "addFavorite" /\ req[r].pc = "done"
                    /\ req[r].result = "ok"
                    /\ Cardinality(RowsFor(favorites, req[r].userId, req[r].eventId)) = 1


(***************************************************************************)
(* A read-through of an event while its review is written                  *)
(***************************************************************************)
InitReadRace ==
    /\ now = 0
    /\ cache = [k \in {} |-> NullData]
    /\ out = NoOut
    /\ lastSet = [k \in CacheKeys |-> NoSet]
    /\ \E st \in {"pending", "rejected"} :
           events = [e \in EventIds |-> RaceEvent(IF e = "e1" THEN st ELSE "pending")]
    /\ artists = [a \in ArtistIds |->
                     IF a = "a1"
                     THEN [NoArtist EXCEPT !.state = "live", !.status = "approved",
                               !.createdBy = "u1"]
                     ELSE [NoArtist EXCEPT !.state = "void"]]
    /\ favorites = <<>>
    /\ req = [r \in RefReqs |-> Blank]
    /\ wrap = NoWrap

\* two calls, each served once, in every order of their steps
NextReadRace ==
    \E r \in RefReqs :
        \/ StoreOk(r) \/ StoreFail(r) \/ StoreLost(r)
        \/ StartGetEventById(r) \/ ContGetEventById(r)
        \/ StartUpdateEventStatus(r) \/ ContUpdateEventStatusGet(r)
        \/ ContUpdateEventStatusUpdate(r) \/ ContXrefGet(r) \/ ContXrefCommit(r)
        \/ ContUpdateEventStatusReget(r)

SpecReadRace == InitReadRace /\ [][NextReadRace]_vars

\* request r is a getEventById of e that has returned an event
ReadReturned(r, e) ==
    /\ req[r].pc = "done" /\ req[r].op = "getEventById" /\ req[r].eid = e
    /\ req[r].result = "ok"

\* request r is a review of e that has returned normally
ReviewReturned(r, e) ==
    /\ req[r].pc = "done" /\ req[r].op = "updateEventStatus" /\ req[r].eid = e
    /\ req[r].result = "ok"

\* C37: once a getEventById of an event and an updateEventStatus of the same event have
\* both returned, the entry event:<id>, if the cache has one, carries the status the
\* review wrote.
C37_NoStaleEventEntry ==
    \A e \in EventIds : \A r \in RefReqs : \A w \in RefReqs :
        (ReadReturned(r, e) /\ ReviewReturned(w, e)) =>
            LET hit == CacheGet(cache, "event:" \o e, now) IN
            Truthy(hit) => hit.status = req[w].target

\* what does hold: the review's invalidation leaves no entry of the event behind
ReviewDropsEntry ==
    [][\A w \in RefReqs :
          (/\ req[w].op = "updateEventStatus" /\ req[w].pc = "resp"
           /\ req[w].at \in {"xref_get", "xref_commit"}
           /\ req'[w].at = "ues_reget")
          => ("event:" \o req[w].eid) \notin DOMAIN cache']_vars

\* a review dropped the entry a read-through had set
EntryDropped ==
    \E w \in RefReqs : \E r \in RefReqs :
        /\ req[w].op = "updateEventStatus" /\ req[w].at = "ues_reget"
        /\ ReadReturned(r, req[w].eid)
        /\ ("event:" \o req[w].eid) \notin DOMAIN cache

====
